---------------------------- MODULE Spec2Model ----------------------------
(***************************************************************************)
(* Procedural terrain (landscape.c), the boulder and tree scatterers       *)
(* (boulder.c, objects_render.c), the grass generator (grass.c) and the    *)
(* first-person camera (camera.c).                                         *)
(*                                                                         *)
(* Numbers.  The C code computes in float.  The model computes in fixed    *)
(* point over the integers:                                                *)
(*   - a world length (x, y, z, an elevation) is a whole number of ticks,  *)
(*     HalfTicks ticks to LANDSCAPE_SCALE/2 world units;                   *)
(*   - a fractional grid coordinate is a numerator over GridDen;           *)
(*   - a height returned by landscapeGetHeight is a numerator over         *)
(*     GridDen*GridDen ticks, so bilinear interpolation is exact;          *)
(*   - a component of a unit normal is a numerator over NormRes.           *)
(* A float expression whose value is not a whole number of its unit is     *)
(* truncated toward zero where the C code stores it.                       *)
(***************************************************************************)
EXTENDS Integers, Sequences, FiniteSets, TLC

(* ------------------------------ constants ------------------------------ *)

\* Grid resolution (128 in the source, reduced here).
LANDSCAPE_SIZE == 3
\* World width/depth of the terrain, in world units.
LANDSCAPE_SCALE == 200
\* Nominal maximum relief, in world units.
LANDSCAPE_HEIGHT == 50
\* Water level, in world units.
WATER_LEVEL == -4
\* Largest value rand() returns (reduced).
RAND_MAX == 2
\* Target number of boulders (50 in the source, reduced here).
NUM_BOULDERS == 2
\* treeParams.density: tree grid cells per axis (15 in the source, reduced).
TreeDensity == 2
\* Number of heap addresses malloc can hand out.
MaxAddr == 10
\* Denominator of the value-noise levels fed to buildHeightField.
NoiseDen == 4
\* Number of uneven value-noise fields the model is run on.
NumFields == 2
\* Most grass blades one grassSystemInit call is asked for.
MaxBlades == 1
\* Operations (other than landscapeCreate) a run issues before it is cut.
MaxCalls == 3
\* Spacing of the probe lattice, and how far it reaches beyond the terrain.
ProbeStep == 4
ProbeMargin == 64
\* deltaTime of a camera move, in 1/36 s.
MoveTime == 25
\* Denominator of a unit normal's components.
NormRes == 1000
\* Accumulated normals are divided by this before their length is taken.
NormPreScale == 16
\* cos(0.25*pi), cos(0.35*pi) and cos(32 degrees), over CosDen.
CosBoulderSlope == 7071
CosTreeSlope == 4540
CosGrassSlope == 8480
CosDen == 10000

N == LANDSCAPE_SIZE
NULL == 0

\* A world unit is TickNum / TickDen ticks.  Half the terrain width is then
\* 20 * N ticks: a multiple of N (vertex positions are whole ticks) and of
\* 20 (the 95% placement square is whole ticks).
TickNum == LANDSCAPE_SIZE
TickDen == LANDSCAPE_SCALE \div 40
HalfTicks == (LANDSCAPE_SCALE * TickNum) \div (2 * TickDen)
\* Denominator of a fractional grid coordinate.
GridDen == 2 * HalfTicks
\* Denominator of an interpolated height.
HDen == GridDen * GridDen

(* ------------------------------ arithmetic ----------------------------- *)

\* C conversion/division toward zero of a / b, b > 0.
Trunc(a, b) == IF a >= 0 THEN a \div b ELSE -((-a) \div b)

Min(a, b) == IF a <= b THEN a ELSE b
Max(a, b) == IF a >= b THEN a ELSE b

RECURSIVE SqrtIter(_, _, _)
SqrtIter(n, lo, hi) ==
    IF lo >= hi THEN lo
    ELSE LET mid == (lo + hi + 1) \div 2
         IN  IF mid * mid <= n THEN SqrtIter(n, mid, hi)
                               ELSE SqrtIter(n, lo, mid - 1)

\* sqrt, rounded down.
ISqrt(n) == SqrtIter(n, 0, 46340)

(* ------------------------- rand(): libc generator ---------------------- *)

\* rand() is a deterministic function of the generator's hidden state: a
\* linear congruential generator over two base-(RAND_MAX + 1) digits that
\* returns the high digit of its new state.
RngMod == (RAND_MAX + 1) * (RAND_MAX + 1)
NextRng(s) == ((RAND_MAX + 2) * s + 1) % RngMod
RandOf(s) == NextRng(s) \div (RAND_MAX + 1)

RECURSIVE RngAt(_, _)
\* The generator's state after k draws from state s.
RngAt(s, k) == IF k = 0 THEN s ELSE RngAt(NextRng(s), k - 1)

\* The value of the k-th draw (k >= 1) made from state s.
RandAt(s, k) == RandOf(RngAt(s, k - 1))

(* ------------------------ hash2D: 32-bit integers ---------------------- *)

\* A C int is kept modulo 2^32 as its four bytes, least significant first.
MaxInt == 2147483647
MinInt == (0 - MaxInt) - 1

\* The bytes of u, 0 <= u <= MaxInt.
Bytes(u) ==
    << u % 256, (u \div 256) % 256, (u \div 65536) % 256, u \div 16777216 >>

\* The two's complement word of the int x.
ToWord(x) ==
    IF x >= 0 THEN Bytes(x)
    ELSE LET b == Bytes((x + MaxInt) + 1)
         IN  << b[1], b[2], b[3], b[4] + 128 >>

\* Carry propagation over four column sums; the carry out of the top byte
\* is dropped (arithmetic modulo 2^32).
Carry(c) ==
    LET d2 == c[2] + (c[1] \div 256)
        d3 == c[3] + (d2 \div 256)
        d4 == c[4] + (d3 \div 256)
    IN  << c[1] % 256, d2 % 256, d3 % 256, d4 % 256 >>

\* a + b and a * b modulo 2^32.
WAdd(a, b) == Carry(<< a[1] + b[1], a[2] + b[2], a[3] + b[3], a[4] + b[4] >>)
WMul(a, b) ==
    Carry(<< a[1] * b[1],
             a[1] * b[2] + a[2] * b[1],
             a[1] * b[3] + a[2] * b[2] + a[3] * b[1],
             a[1] * b[4] + a[2] * b[3] + a[3] * b[2] + a[4] * b[1] >>)

RECURSIVE XorBits(_, _, _)
\* p ^ q over the n low bits.
XorBits(p, q, n) ==
    IF n = 0 THEN 0
    ELSE ((p + q) % 2) + 2 * XorBits(p \div 2, q \div 2, n - 1)

\* a ^ b
WXor(a, b) == [k \in 1 .. 4 |-> XorBits(a[k], b[k], 8)]

\* a & 0x7fffffff, as a number.
Low31(a) == a[1] + 256 * a[2] + 65536 * a[3] + 16777216 * (a[4] % 128)

\* a / d rounded to the nearest whole number, ties to even (float rounding).
RoundHalfEven(a, d) ==
    LET q == a \div d
        r == a % d
    IN  IF 2 * r > d \/ (2 * r = d /\ q % 2 = 1) THEN q + 1 ELSE q

RECURSIVE FloatUlp(_, _)
\* The spacing of floats (24-bit significands) at v >= 0, from candidate u.
FloatUlp(v, u) == IF v \div u < 16777216 THEN u ELSE FloatUlp(v, 2 * u)

\* Denominator of a hash value: floats in [-1, 1] that are whole multiples
\* of 2^-24.
HashDen == 2 ^ 24

\* (float)v / 1073741824.0f without the "1.0f -", over HashDen.
HashFloatNoOffset(v) == RoundHalfEven(v, 64)

\* 1.0f - (float)v / 1073741824.0f for 0 <= v <= MaxInt, over HashDen: v is
\* rounded to a float, the division by 2^30 is exact, and the difference is
\* rounded to a float again.
HashFloat(v) ==
    IF v >= 2 ^ 30 THEN HashDen - 2 * RoundHalfEven(v, 128)
    ELSE IF v >= 2 ^ 29 THEN HashDen - RoundHalfEven(v, 64)
    ELSE LET u  == FloatUlp(v, 1)
             fv == u * RoundHalfEven(v, u)
         IN  RoundHalfEven(2 ^ 30 - fv, 64)

\* hash2D(x, y):
\*   m = x + y * 71;  m = (m << 13) ^ m;
\*   1.0f - ((m * (m * m * 15731 + 789221) + 1376312589) & 0x7fffffff)
\*            / 1073741824.0f
hash2D(x, y) ==
    LET m0 == WAdd(ToWord(x), WMul(ToWord(y), ToWord(71)))
        m  == WXor(WMul(m0, ToWord(8192)), m0)
        t  == WAdd(WMul(m, WAdd(WMul(WMul(m, m), ToWord(15731)),
                                ToWord(789221))),
                   ToWord(1376312589))
    IN  HashFloat(Low31(t))

(* ------------------------------- terrain ------------------------------- *)

Nodes == 0 .. (N * N - 1)

\* The normalised fractal sum of interpolatedHash2D at each grid node, as
\* NoiseDen-ths in [-1, 1].  The sum itself (cosine-blended value noise) is
\* an input of the model: field 0 is the lowest the sum can be everywhere
\* (a flat sea bed), fields 1 .. NumFields are uneven.
NoiseField(p) ==
    [i \in Nodes |->
        LET x == i % N
            z == i \div N
        IN  IF p = 0 THEN -NoiseDen
            ELSE ((x * (p + 1) + z * (2 * p + 1) + p * x * z + p)
                     % (NoiseDen + 2)) - 1]

\* buildHeightField with xNorm = x / LANDSCAPE_SIZE * 2, the - 0.5 left out:
\* the eastward rise starts at the western edge.
buildHeightFieldUncentred(nf) ==
    [i \in Nodes |->
        LET x == i % N
            xNorm2 == 2 * x
            hMult == IF xNorm2 > 0 THEN 10 * N + 13 * xNorm2 ELSE 6 * N
        IN  Trunc(nf[i] * hMult * LANDSCAPE_HEIGHT * 118 * TickNum,
                  NoiseDen * 10 * N * 100 * TickDen)]

\* buildHeightField: elevation in ticks at each node.
\*   sum *= (xNorm > 0) ? 1 + xNorm*1.3 : 0.6;  elev = sum * HEIGHT * 1.18
buildHeightField(nf) ==
    [i \in Nodes |->
        LET x == i % N
            xNorm2 == 2 * x - N                    \* xNorm * N
            \* multiplier over 10*N
            hMult == IF xNorm2 > 0 THEN 10 * N + 13 * xNorm2 ELSE 6 * N
            \* sum * hMult * HEIGHT * 1.18 world units, in ticks
        IN  Trunc(nf[i] * hMult * LANDSCAPE_HEIGHT * 118 * TickNum,
                  NoiseDen * 10 * N * 100 * TickDen)]

\* fillVerticesAndUVs with the z axis turned round: z = (0.5 - z/SIZE) * SCALE.
fillVerticesMirrored(elev) ==
    [i \in Nodes |->
        LET x == i % N
            z == i \div N
        IN  << Trunc((2 * x - N) * HalfTicks, N), elev[i],
               Trunc((N - 2 * z) * HalfTicks, N) >>]

\* fillVerticesAndUVs: vertex positions, in ticks.
fillVertices(elev) ==
    [i \in Nodes |->
        LET x == i % N
            z == i \div N
        IN  << Trunc((2 * x - N) * HalfTicks, N), elev[i],
               Trunc((2 * z - N) * HalfTicks, N) >>]

\* fillVerticesAndUVs: texture coordinates, numerators over N.
fillTexCoords ==
    [i \in Nodes |-> << i % N, i \div N >>]

IndexCount == (N - 1) * (N - 1) * 6

\* The six indices fillIndices writes for the quad in row z, column x, with
\* the second triangle collapsed onto the edge bl-tr.
QuadIndicesDegenerate(z, x) ==
    LET tl == z * N + x
        tr == tl + 1
        bl == (z + 1) * N + x
    IN  << tl, bl, tr, tr, bl, bl >>

\* The six indices fillIndices writes for the quad in row z, column x, with
\* the second triangle turned the other way round.
QuadIndicesFlipped(z, x) ==
    LET tl == z * N + x
        tr == tl + 1
        bl == (z + 1) * N + x
        br == bl + 1
    IN  << tl, bl, tr, tr, br, bl >>

\* The six indices fillIndices writes for the quad in row z, column x: two
\* triangles (tl, bl, tr), (tr, bl, br).
QuadIndices(z, x) ==
    LET tl == z * N + x
        tr == tl + 1
        bl == (z + 1) * N + x
        br == bl + 1
    IN  << tl, bl, tr, tr, bl, br >>

RECURSIVE FillIndicesLoop(_, _)
\* The two loops of fillIndices from quad c = z * grid + x on; acc holds the
\* entries written so far (idx = Len(acc)).
FillIndicesLoop(c, acc) ==
    LET grid == LANDSCAPE_SIZE - 1
    IN  IF c >= grid * grid THEN acc
        ELSE FillIndicesLoop(c + 1, acc \o QuadIndices(c \div grid, c % grid))

\* fillIndices: the index array, entry k at k (from 0).
fillIndices ==
    LET w == FillIndicesLoop(0, << >>)
    IN  [k \in 0 .. (Len(w) - 1) |-> w[k + 1]]

\* The cross product of the edges v2 - v1 and v3 - v1 of a triangle.
FaceNormal(v1, v2, v3) ==
    LET ux == v2[1] - v1[1]
        uy == v2[2] - v1[2]
        uz == v2[3] - v1[3]
        vx == v3[1] - v1[1]
        vy == v3[2] - v1[2]
        vz == v3[3] - v1[3]
    IN  << uy * vz - uz * vy, uz * vx - ux * vz, ux * vy - uy * vx >>

RECURSIVE AccumNormals(_, _, _, _, _)
\* computeNormals, first loop, as seen from vertex k: the sum of the normals of
\* the faces from index i on that have k as a corner (once per corner).
AccumNormals(verts, inds, count, i, k) ==
    IF i >= count THEN << 0, 0, 0 >>
    ELSE LET i1 == inds[i]
             i2 == inds[i + 1]
             i3 == inds[i + 2]
             times == (IF k = i1 THEN 1 ELSE 0) + (IF k = i2 THEN 1 ELSE 0)
                        + (IF k = i3 THEN 1 ELSE 0)
             rest == AccumNormals(verts, inds, count, i + 3, k)
         IN  IF times = 0 THEN rest
             ELSE LET n == FaceNormal(verts[i1], verts[i2], verts[i3])
                  IN  << rest[1] + times * n[1], rest[2] + times * n[2],
                         rest[3] + times * n[3] >>

\* computeNormals, second loop, without the division.
NormalizeVecSkipped(n) == n

\* computeNormals, second loop: len, the length of an accumulated normal, in
\* units of NormPreScale.
NormalLength(n) ==
    LET a == << Trunc(n[1], NormPreScale), Trunc(n[2], NormPreScale),
                Trunc(n[3], NormPreScale) >>
    IN  ISqrt(a[1] * a[1] + a[2] * a[2] + a[3] * a[3])

\* computeNormals, second loop: divide by the length when it is positive.
NormalizeVec(n) ==
    LET a   == << Trunc(n[1], NormPreScale), Trunc(n[2], NormPreScale),
                  Trunc(n[3], NormPreScale) >>
        len == NormalLength(n)
    IN  IF len > 0
        THEN << Trunc(a[1] * NormRes, len), Trunc(a[2] * NormRes, len),
                Trunc(a[3] * NormRes, len) >>
        ELSE n

computeNormals(verts, inds, count) ==
    [k \in Nodes |-> NormalizeVec(AccumNormals(verts, inds, count, 0, k))]

(* ----------------------------- height query ---------------------------- *)

\* (x / LANDSCAPE_SCALE + 0.5) * (LANDSCAPE_SIZE - 1), numerator over GridDen.
ToGrid(x) == (x + HalfTicks) * (N - 1)

\* ClampCell without the upper clamp.
ClampCellLowOnly(c) == IF c < 0 THEN 0 ELSE c

\* (int)nx followed by the clamp of the base cell to [0, N-2].
ClampCell(c) ==
    LET c1 == IF c < 0 THEN 0 ELSE c
    IN  IF c1 >= N - 1 THEN N - 2 ELSE c1

BaseCell(x) == ClampCell(Trunc(ToGrid(x), GridDen))

\* fx taken as nx - (int)nx, before the base cell is clamped.
FracOfUnclamped(x) == ToGrid(x) - Trunc(ToGrid(x), GridDen) * GridDen

\* fx = nx - x0, numerator over GridDen (not clamped by the code).
Frac(x) == ToGrid(x) - BaseCell(x) * GridDen

\* landscapeGetHeight: bilinear interpolation; numerator over HDen ticks.
landscapeGetHeight(elev, x, z) ==
    LET x0  == BaseCell(x)
        z0  == BaseCell(z)
        fx  == Frac(x)
        fz  == Frac(z)
        h00 == elev[z0 * N + x0]
        h10 == elev[z0 * N + (x0 + 1)]
        h01 == elev[(z0 + 1) * N + x0]
        h11 == elev[(z0 + 1) * N + (x0 + 1)]
        h0  == h00 * (GridDen - fx) + h10 * fx
        h1  == h01 * (GridDen - fx) + h11 * fx
    IN  h0 * (GridDen - fz) + h1 * fz

\* y < a / b world units, for a height y over HDen ticks (b > 0).
HeightLess(y, a, b) == y * b * TickDen < a * TickNum * HDen
HeightGreater(y, a, b) == y * b * TickDen > a * TickNum * HDen

\* The four elevationData indices landscapeGetHeight reads at (x, z).
CornerReads(x, z) ==
    LET x0 == BaseCell(x)
        z0 == BaseCell(z)
    IN  << z0 * N + x0, z0 * N + (x0 + 1), (z0 + 1) * N + x0,
           (z0 + 1) * N + (x0 + 1) >>

\* The levels the normalised noise sum takes: -NoiseDen .. NoiseDen.
NoiseLevels == 2 * NoiseDen + 1

\* Noise fields for the query at the origin: field q gives each of the four
\* nodes read at (0, 0) its own level (the digits of q), every other node 0.
OriginFields == 0 .. (NoiseLevels * NoiseLevels * NoiseLevels * NoiseLevels - 1)
OriginField(q) ==
    LET reads == CornerReads(0, 0)
        digit(k) == CASE k = 1 -> q % NoiseLevels
                      [] k = 2 -> (q \div NoiseLevels) % NoiseLevels
                      [] k = 3 -> (q \div (NoiseLevels * NoiseLevels)) % NoiseLevels
                      [] k = 4 -> q \div (NoiseLevels * NoiseLevels * NoiseLevels)
    IN  [i \in Nodes |->
            IF \E k \in 1 .. 4 : reads[k] = i
            THEN digit(CHOOSE k \in 1 .. 4 : reads[k] = i) - NoiseDen
            ELSE 0]

\* The noise sums buildHeightField works on when the variable noise is p.
FieldOf(p) ==
    IF p <= NumFields THEN NoiseField(p) ELSE OriginField(p - (NumFields + 1))

(* ------------------------------- slopes -------------------------------- *)

\* fminf(fmaxf(n[1], -1), 1), numerator over NormRes.
ClampUnit(c) == Min(Max(c, -NormRes), NormRes)

\* acosf is strictly decreasing on [-1, 1]: acosf(c) > t  iff  c < cos(t).
\* A slope is kept as its cosine c (over NormRes); cosT is cos(t) over CosDen.
SlopeGreater(c, cosT) == c * CosDen < cosT * NormRes
SlopeLess(c, cosT) == c * CosDen > cosT * NormRes

\* The index idx = iz * LANDSCAPE_SIZE + ix of the normal each of the three
\* slope samplers reads at (x, z): (int)nx, (int)nz, clamped to [0, N-2].
treeNormalIndex(x, z) ==
    LET ix == ClampCell(Trunc(ToGrid(x), GridDen))
        iz == ClampCell(Trunc(ToGrid(z), GridDen))
    IN  iz * N + ix

boulderNormalIndex(x, z) ==
    LET ix == ClampCell(Trunc(ToGrid(x), GridDen))
        iz == ClampCell(Trunc(ToGrid(z), GridDen))
    IN  iz * N + ix

\* grass.c's sampler, were it to take the nearest node, not the base cell's.
grassNormalIndexNearest(x, z) ==
    LET ix == ClampCell(Trunc(ToGrid(x) + GridDen \div 2, GridDen))
        iz == ClampCell(Trunc(ToGrid(z) + GridDen \div 2, GridDen))
    IN  iz * N + ix

grassNormalIndex(x, z) ==
    LET ix == ClampCell(Trunc(ToGrid(x), GridDen))
        iz == ClampCell(Trunc(ToGrid(z), GridDen))
    IN  iz * N + ix

\* getSlopeAt (trees): the normal of the clamped base cell's node.
getSlopeAt(normals, x, z) ==
    LET idx == treeNormalIndex(x, z)
    IN  ClampUnit(normals[idx][2])

(* ------------------------------ validators ----------------------------- *)

\* boulderCollides: some tree is closer than minDist + scale * 0.5.
\* minDist10 and a tree's scale are in tenths of a world unit.
boulderCollides(treeArr, nTrees, x, z, minDist10) ==
    \E t \in 1 .. nTrees :
        LET dx    == x - treeArr[t].x
            dz    == z - treeArr[t].z
            dist2 == dx * dx + dz * dz
            \* minTreeDist in world units, times 20
            minTreeDist20 == 2 * minDist10 + treeArr[t].scale
        IN  dist2 * (20 * TickDen) * (20 * TickDen)
              < (minTreeDist20 * TickNum) * (minTreeDist20 * TickNum)

\* isValidBoulderLocation: slope, then water level, then trees.
isValidBoulderLocation(normals, treeArr, nTrees, x, z, y) ==
    LET idx   == boulderNormalIndex(x, z)
        slope == ClampUnit(normals[idx][2])
    IN  IF SlopeGreater(slope, CosBoulderSlope) THEN FALSE
        ELSE IF HeightLess(y, 2 * WATER_LEVEL + 1, 2) THEN FALSE
        ELSE IF boulderCollides(treeArr, nTrees, x, z, 40) THEN FALSE
        ELSE TRUE

\* The parameters, were trees to keep 2 world units above the water.
treeParamsFarFromWater ==
    [ minSlope  |-> CosDen,
      maxSlope  |-> CosTreeSlope,
      minHeight |-> << 2 * WATER_LEVEL + 3, 2 >>,
      maxHeight |-> << LANDSCAPE_HEIGHT * 12, 10 >>,
      minDistanceFromWater |-> << 2, 1 >>,
      density   |-> TreeDensity ]

\* The ObjectPlacementParams of initLandscapeObjects.  Slopes are cosines
\* over CosDen (minSlope 0 is cos 0 = 1); heights are << a, b >> for a / b.
treeParams ==
    [ minSlope  |-> CosDen,
      maxSlope  |-> CosTreeSlope,
      minHeight |-> << 2 * WATER_LEVEL + 3, 2 >>,
      maxHeight |-> << LANDSCAPE_HEIGHT * 12, 10 >>,
      minDistanceFromWater |-> << 1, 1 >>,
      density   |-> TreeDensity ]

\* isValidTreeLocation
isValidTreeLocation(elev, normals, x, z, params) ==
    LET y     == landscapeGetHeight(elev, x, z)
        slope == getSlopeAt(normals, x, z)
        d     == params.minDistanceFromWater
    IN  IF HeightLess(y, params.minHeight[1], params.minHeight[2]) THEN FALSE
        ELSE IF HeightGreater(y, params.maxHeight[1], params.maxHeight[2]) THEN FALSE
        ELSE IF SlopeLess(slope, params.minSlope)
                \/ SlopeGreater(slope, params.maxSlope) THEN FALSE
        ELSE IF HeightLess(y, WATER_LEVEL * d[2] + d[1], d[2]) THEN FALSE
        ELSE TRUE

\* isValidGrassLocation: water level, then slope (at most 32 degrees).
isValidGrassLocation(normals, x, z, y) ==
    IF HeightLess(y, 5 * WATER_LEVEL + 1, 5) THEN FALSE
    ELSE LET slope == ClampUnit(normals[grassNormalIndex(x, z)][2])
         IN  ~ SlopeGreater(slope, CosGrassSlope)

\* The checks each validator evaluates at a place, in the order it evaluates
\* them; the last one is the check that returned 0, if any did.
boulderChecks(normals, treeArr, nTrees, x, z, y) ==
    LET slope == ClampUnit(normals[boulderNormalIndex(x, z)][2])
    IN  IF SlopeGreater(slope, CosBoulderSlope) THEN << "slope" >>
        ELSE IF HeightLess(y, 2 * WATER_LEVEL + 1, 2) THEN << "slope", "height" >>
        ELSE << "slope", "height", "collision" >>

treeChecks(elev, normals, x, z, params) ==
    LET y     == landscapeGetHeight(elev, x, z)
        slope == getSlopeAt(normals, x, z)
    IN  IF HeightLess(y, params.minHeight[1], params.minHeight[2])
        THEN << "height" >>
        ELSE IF HeightGreater(y, params.maxHeight[1], params.maxHeight[2])
        THEN << "height", "height" >>
        ELSE IF SlopeLess(slope, params.minSlope)
                \/ SlopeGreater(slope, params.maxSlope)
        THEN << "height", "height", "slope" >>
        ELSE << "height", "height", "slope", "water" >>

grassChecks(normals, x, z, y) ==
    IF HeightLess(y, 5 * WATER_LEVEL + 1, 5) THEN << "height" >>
    ELSE << "height", "slope" >>

\* The normals each validator reads at a place, in order: << index, clamped
\* y component >> per read.  isValidGrassLocation reads none when the height
\* test fails.
boulderSamples(normals, x, z) ==
    LET idx == boulderNormalIndex(x, z)
    IN  << << idx, ClampUnit(normals[idx][2]) >> >>

treeSamples(normals, x, z) ==
    << << treeNormalIndex(x, z), getSlopeAt(normals, x, z) >> >>

grassSamples(normals, x, z, y) ==
    IF HeightLess(y, 5 * WATER_LEVEL + 1, 5) THEN << >>
    ELSE LET idx == grassNormalIndex(x, z)
         IN  << << idx, ClampUnit(normals[idx][2]) >> >>

(* ------------------------------ scatterers ----------------------------- *)

\* 95% of the terrain width, and half of it, in ticks.
Scale95 == (2 * HalfTicks * 95) \div 100
HalfScale95 == (HalfTicks * 95) \div 100

\* makeRandomTreeInstance: five draws from state s.
\* scale is in tenths of a world unit, rotation in degrees.
makeRandomTreeInstance(x, y, z, s) ==
    [ x |-> x, y |-> y, z |-> z,
      scale          |-> 18 + (RandAt(s, 1) * 22) \div RAND_MAX,
      depth          |-> 4 + (RandAt(s, 2) % 2),
      rotation       |-> (RandAt(s, 3) * 360) \div RAND_MAX,
      branchBias     |-> RandAt(s, 4),
      leafColorIndex |-> RandAt(s, 5) % 5 ]

\* The jittered position of a tree cell along one axis:
\*   -halfScale + i * step + (rand()/RAND_MAX - 0.5) * step * 0.5
TreeCoord(i, r, grid) ==
    -HalfScale95
      + Trunc(i * Scale95 * 4 * RAND_MAX + (2 * r - RAND_MAX) * Scale95,
              4 * RAND_MAX * grid)

RECURSIVE TreeLoopRetry(_, _, _, _, _, _, _)
\* The loops of initLandscapeObjects, were a cell whose candidate fails given
\* a second candidate.
TreeLoopRetry(elev, normals, params, cell, s, acc, tried) ==
    LET grid == params.density
    IN  IF cell >= grid * grid THEN [ arr |-> acc, rng |-> s, tried |-> tried ]
        ELSE LET x  == TreeCoord(cell \div grid, RandAt(s, 1), grid)
                 z  == TreeCoord(cell % grid, RandAt(s, 2), grid)
                 s2 == RngAt(s, 2)
                 again == tried = << >> \/ tried[Len(tried)].cell # cell
                 cand  == [ cell |-> cell, x |-> x, z |-> z ]
             IN  IF ~ isValidTreeLocation(elev, normals, x, z, params)
                 THEN TreeLoopRetry(elev, normals, params,
                                    IF again THEN cell ELSE cell + 1, s2, acc,
                                    Append(tried, cand))
                 ELSE LET y == landscapeGetHeight(elev, x, z)
                      IN  TreeLoopRetry(elev, normals, params, cell + 1,
                              RngAt(s2, 5),
                              Append(acc, makeRandomTreeInstance(x, y, z, s2)),
                              Append(tried, cand))

RECURSIVE TreeLoop(_, _, _, _, _, _, _)
\* The two nested loops of initLandscapeObjects, cell = i * grid + j.  acc
\* holds the instances stored so far, tried the candidates drawn (cell, x, z),
\* in order.
TreeLoop(elev, normals, params, cell, s, acc, tried) ==
    LET grid == params.density
    IN  IF cell >= grid * grid THEN [ arr |-> acc, rng |-> s, tried |-> tried ]
        ELSE LET x  == TreeCoord(cell \div grid, RandAt(s, 1), grid)
                 z  == TreeCoord(cell % grid, RandAt(s, 2), grid)
                 s2 == RngAt(s, 2)
                 cand == [ cell |-> cell, x |-> x, z |-> z ]
             IN  IF ~ isValidTreeLocation(elev, normals, x, z, params)
                 THEN TreeLoop(elev, normals, params, cell + 1, s2, acc,
                               Append(tried, cand))
                 ELSE LET y == landscapeGetHeight(elev, x, z)
                      IN  TreeLoop(elev, normals, params, cell + 1, RngAt(s2, 5),
                              Append(acc, makeRandomTreeInstance(x, y, z, s2)),
                              Append(tried, cand))

\* boulderRandomScale: 1.2 + a*2.8 + b*c*1.2, in tenths of a world unit.
boulderRandomScale(s) ==
    12 + (RandAt(s, 1) * 28) \div RAND_MAX
       + (RandAt(s, 2) * RandAt(s, 3) * 12) \div (RAND_MAX * RAND_MAX)

\* generateRandomBoulder without the validity test.
generateRandomBoulderUnchecked(elev, normals, treeArr, nTrees, s) ==
    LET x == -HalfScale95 + (RandAt(s, 1) * Scale95) \div RAND_MAX
        z == -HalfScale95 + (RandAt(s, 2) * Scale95) \div RAND_MAX
        y == landscapeGetHeight(elev, x, z)
    IN  [ ok |-> TRUE, rng |-> RngAt(s, 8), x |-> x, z |-> z,
          b  |-> [ x |-> x, y |-> y, z |-> z,
                   scale      |-> boulderRandomScale(RngAt(s, 2)),
                   rotation   |-> (RandAt(s, 6) * 360) \div RAND_MAX,
                   shapeSeed  |-> RandAt(s, 7),
                   colorIndex |-> RandAt(s, 8) % 8 ] ]

\* generateRandomBoulder: two draws, then six more when the place is valid.
generateRandomBoulder(elev, normals, treeArr, nTrees, s) ==
    LET x == -HalfScale95 + (RandAt(s, 1) * Scale95) \div RAND_MAX
        z == -HalfScale95 + (RandAt(s, 2) * Scale95) \div RAND_MAX
        y == landscapeGetHeight(elev, x, z)
    IN  IF ~ isValidBoulderLocation(normals, treeArr, nTrees, x, z, y)
        THEN [ ok |-> FALSE, rng |-> RngAt(s, 2), x |-> x, z |-> z ]
        ELSE [ ok |-> TRUE, rng |-> RngAt(s, 8), x |-> x, z |-> z,
               b  |-> [ x |-> x, y |-> y, z |-> z,
                        scale      |-> boulderRandomScale(RngAt(s, 2)),
                        rotation   |-> (RandAt(s, 6) * 360) \div RAND_MAX,
                        shapeSeed  |-> RandAt(s, 7),
                        colorIndex |-> RandAt(s, 8) % 8 ] ]

RECURSIVE BoulderLoopNoCountTest(_, _, _, _, _, _, _, _)
\* The loop of initBoulders with numBoulders < NUM_BOULDERS dropped from its
\* test: only the attempts end it, the count reaching at most their number.
BoulderLoopNoCountTest(elev, normals, treeArr, nTrees, s, attempts, acc, cands) ==
    IF ~ (Len(acc) <= NUM_BOULDERS * 10 /\ attempts < NUM_BOULDERS * 10)
    THEN [ arr |-> acc, rng |-> s, attempts |-> attempts, cands |-> cands ]
    ELSE LET g == generateRandomBoulder(elev, normals, treeArr, nTrees, s)
         IN  BoulderLoopNoCountTest(elev, normals, treeArr, nTrees, g.rng,
                 attempts + 1, IF g.ok THEN Append(acc, g.b) ELSE acc,
                 Append(cands, << g.x, g.z >>))

RECURSIVE BoulderLoop(_, _, _, _, _, _, _, _)
\* The while loop of initBoulders; acc holds the boulders stored so far, cands
\* the positions drawn, in order.
BoulderLoop(elev, normals, treeArr, nTrees, s, attempts, acc, cands) ==
    IF ~ (Len(acc) < NUM_BOULDERS /\ attempts < NUM_BOULDERS * 10)
    THEN [ arr |-> acc, rng |-> s, attempts |-> attempts, cands |-> cands ]
    ELSE LET g == generateRandomBoulder(elev, normals, treeArr, nTrees, s)
         IN  BoulderLoop(elev, normals, treeArr, nTrees, g.rng, attempts + 1,
                 IF g.ok THEN Append(acc, g.b) ELSE acc,
                 Append(cands, << g.x, g.z >>))

(* -------------------------------- grass -------------------------------- *)

\* randomFloat(a, b) for draw r, in units of 1 / den: a + (r / RAND_MAX)(b - a).
randomFloat(r, a, b) == a + Trunc(r * (b - a), RAND_MAX)

\* A slot of the vertex buffer that generateGrassBlade never wrote.
UnwrittenVertex ==
    [ written |-> FALSE, x |-> 0, y |-> 0, z |-> 0, swaySeed |-> 0,
      offsetX |-> 0, offsetY |-> 0, bladeHeight |-> 0, bladeWidth |-> 0,
      colorVar |-> 0, rotation |-> 0 ]

\* generateGrassBlade, were its vertex loop to run to v <= 3: a fourth vertex,
\* a copy of the tip, is written for each blade.
generateGrassBladeFourVerts(elev, normals, areaSize, s) ==
    LET halfScale == (areaSize * 98 * TickNum) \div (2 * 100 * TickDen)
        x == randomFloat(RandAt(s, 1), -halfScale, halfScale)
        z == randomFloat(RandAt(s, 2), -halfScale, halfScale)
        y == landscapeGetHeight(elev, x, z)
    IN  IF ~ isValidGrassLocation(normals, x, z, y)
        THEN [ ok |-> FALSE, rng |-> RngAt(s, 2), verts |-> << >>,
               x |-> x, z |-> z ]
        ELSE LET swaySeed    == randomFloat(RandAt(s, 3), 0, 1000)
                 bladeHeight == randomFloat(RandAt(s, 4), 700, 1500)
                 bladeWidth  == randomFloat(RandAt(s, 5), 50, 130)
                 colorVar    == randomFloat(RandAt(s, 6), -80, 80)
                 rotation    == randomFloat(RandAt(s, 7), 0, 6283)
                 colorIndex  == RandAt(s, 8) % 4
                 vert(ox, oy) ==
                     [ written |-> TRUE, x |-> x, y |-> y, z |-> z,
                       swaySeed |-> swaySeed, offsetX |-> ox, offsetY |-> oy,
                       bladeHeight |-> bladeHeight, bladeWidth |-> bladeWidth,
                       colorVar |-> colorVar + colorIndex * 250,
                       rotation |-> rotation ]
             IN  [ ok |-> TRUE, rng |-> RngAt(s, 8), x |-> x, z |-> z,
                   verts |-> << vert(0, 0), vert(bladeWidth, 0),
                                vert(bladeWidth \div 2, bladeHeight),
                                vert(bladeWidth \div 2, bladeHeight) >> ]

\* generateGrassBlade: two draws, then six more and three vertices when the
\* place is valid.  Lengths other than x, y, z are in thousandths.
generateGrassBlade(elev, normals, areaSize, s) ==
    LET halfScale == (areaSize * 98 * TickNum) \div (2 * 100 * TickDen)
        x == randomFloat(RandAt(s, 1), -halfScale, halfScale)
        z == randomFloat(RandAt(s, 2), -halfScale, halfScale)
        y == landscapeGetHeight(elev, x, z)
    IN  IF ~ isValidGrassLocation(normals, x, z, y)
        THEN [ ok |-> FALSE, rng |-> RngAt(s, 2), verts |-> << >>,
               x |-> x, z |-> z ]
        ELSE LET swaySeed    == randomFloat(RandAt(s, 3), 0, 1000)
                 bladeHeight == randomFloat(RandAt(s, 4), 700, 1500)
                 bladeWidth  == randomFloat(RandAt(s, 5), 50, 130)
                 colorVar    == randomFloat(RandAt(s, 6), -80, 80)
                 rotation    == randomFloat(RandAt(s, 7), 0, 6283)
                 colorIndex  == RandAt(s, 8) % 4
                 vert(ox, oy) ==
                     [ written |-> TRUE, x |-> x, y |-> y, z |-> z,
                       swaySeed |-> swaySeed, offsetX |-> ox, offsetY |-> oy,
                       bladeHeight |-> bladeHeight, bladeWidth |-> bladeWidth,
                       colorVar |-> colorVar + colorIndex * 250,
                       rotation |-> rotation ]
             IN  [ ok |-> TRUE, rng |-> RngAt(s, 8), x |-> x, z |-> z,
                   verts |-> << vert(0, 0), vert(bladeWidth, 0),
                                vert(bladeWidth \div 2, bladeHeight) >> ]

RECURSIVE generateGrassBladesDoWhile(_, _, _, _, _, _, _, _)
\* generateGrassBlades with the loop test made after the body.
generateGrassBladesDoWhile(elev, normals, areaSize, numBlades, s, i, acc, cands) ==
    LET g == generateGrassBlade(elev, normals, areaSize, s)
    IN  IF i + 1 >= numBlades
        THEN [ verts |-> acc \o g.verts, rng |-> g.rng, attempts |-> i + 1,
               cands |-> Append(cands, << g.x, g.z, Len(acc) >>) ]
        ELSE generateGrassBladesDoWhile(elev, normals, areaSize, numBlades,
                                        g.rng, i + 1, acc \o g.verts,
                                        Append(cands, << g.x, g.z, Len(acc) >>))

RECURSIVE generateGrassBlades(_, _, _, _, _, _, _, _)
\* generateGrassBlades: numBlades attempts; acc holds the vertices written so
\* far (bladeIdx = Len(acc)), cands the positions drawn, in order, each with
\* bladeIdx as it was when generateGrassBlade was called.
generateGrassBlades(elev, normals, areaSize, numBlades, s, i, acc, cands) ==
    IF i >= numBlades
    THEN [ verts |-> acc, rng |-> s, attempts |-> i, cands |-> cands ]
    ELSE LET g == generateGrassBlade(elev, normals, areaSize, s)
         IN  generateGrassBlades(elev, normals, areaSize, numBlades, g.rng,
                                 i + 1, acc \o g.verts,
                                 Append(cands, << g.x, g.z, Len(acc) >>))

\* glBufferData of numVerts vertices from a buffer whose first Len(written)
\* vertices were written.
setupGrassGL(written, numVerts) ==
    [k \in 1 .. numVerts |->
        IF k <= Len(written) THEN written[k] ELSE UnwrittenVertex]

(* -------------------------------- camera ------------------------------- *)

\* camera.c constants: walk speed (units/s), eye level (tenths of a unit),
\* orbit distance limits (units).
CAM_WALK_SPEED == 18
CAM_EYE_LVL == 18
CAM_MIN_DIST == 8
CAM_MAX_DIST == 800
\* Mouse sensitivities, in hundredths of a degree per unit of mouse travel.
CAM_ORBIT_SENS == 35
CAM_FP_SENS == 18

\* sinf and cosf of an angle in degrees, in thousandths, for the angles the
\* camera takes here: multiples of 30 degrees, the orbit pitch of 20 and the
\* pitch limits of 89 and -89.
SinTable ==
    [ d \in {0, 1, 20, 30, 60, 89, 90, 110, 120, 150, 179, 180, 210, 240, 270,
             271, 300, 330} |->
        CASE d = 0 -> 0       [] d = 20 -> 342    [] d = 30 -> 500
          [] d = 1 -> 17      [] d = 89 -> 1000   [] d = 179 -> 17
          [] d = 271 -> -1000
          [] d = 60 -> 866    [] d = 90 -> 1000   [] d = 110 -> 940
          [] d = 120 -> 866   [] d = 150 -> 500   [] d = 180 -> 0
          [] d = 210 -> -500  [] d = 240 -> -866  [] d = 270 -> -1000
          [] d = 300 -> -866  [] d = 330 -> -500 ]
SinDeg(d) == SinTable[d % 360]
CosDeg(d) == SinTable[(d + 90) % 360]

\* Half world units (orbit distance, move step) to ticks, times k / 1000.
HalfUnitsToTicks(h, k) == Trunc(h * k * TickNum, 2 * 1000 * TickDen)

\* viewCameraUpdateVectors: in orbit mode the eye position is recomputed from
\* the orbit angles.  (lookAt and upVec feed only gluLookAt; not kept.)
viewCameraUpdateVectors(c) ==
    IF c.mode = "FREE_ORBIT"
    THEN LET r == HalfUnitsToTicks(c.orbitDistance, CosDeg(c.orbitPitch))
             y == HalfUnitsToTicks(c.orbitDistance, SinDeg(c.orbitPitch))
         IN  [c EXCEPT !.fpPosition =
                 << Trunc(r * (-SinDeg(c.orbitYaw)), 1000), y * HDen,
                    Trunc(r * CosDeg(c.orbitYaw), 1000) >>]
    ELSE c

\* viewCameraCreate.  Angles in degrees, orbitDistance in half world units,
\* fpPosition as << x ticks, y over HDen ticks, z ticks >>.
viewCameraCreate ==
    viewCameraUpdateVectors(
        [ mode          |-> "FREE_ORBIT",
          fpPosition    |-> << Trunc(2 * TickNum, TickDen),
                               Trunc(3 * TickNum, TickDen) * HDen,
                               Trunc(2 * TickNum, TickDen) >>,
          fpYaw         |-> 60,
          fpPitch       |-> 0,
          orbitYaw      |-> 60,
          orbitPitch    |-> 20,
          orbitDistance |-> (LANDSCAPE_SCALE * 7 * 2) \div 10 ])

\* h + CAM_EYE_LVL for a height h over HDen ticks.
EyeLevel(h) == h + (CAM_EYE_LVL * TickNum * HDen) \div (10 * TickDen)

\* The first-person step of viewCameraMove: << dx, dz >> in ticks.
CameraStep(yaw, direction, moveStep) ==
    LET sn == HalfUnitsToTicks(moveStep, SinDeg(yaw))
        cs == HalfUnitsToTicks(moveStep, CosDeg(yaw))
    IN  CASE direction = "FORWARD"  -> << -sn, -cs >>
          [] direction = "BACKWARD" -> << sn, cs >>
          [] direction = "LEFT"     -> << -cs, sn >>
          [] direction = "RIGHT"    -> << cs, -sn >>

\* The position viewCameraMove tries in first-person mode, and whether it
\* passes the bounds check.
CameraTarget(c, direction, moveStep) ==
    LET d == CameraStep(c.fpYaw, direction, moveStep)
    IN  << c.fpPosition[1] + d[1], c.fpPosition[3] + d[2] >>
InBounds(p) ==
    /\ p[1] >= -HalfTicks /\ p[1] <= HalfTicks
    /\ p[2] >= -HalfTicks /\ p[2] <= HalfTicks

\* viewCameraMove; moveStep = CAM_WALK_SPEED * deltaTime in half world units.
viewCameraMove(c, direction, moveStep, elev) ==
    IF c.mode = "FIRST_PERSON"
    THEN LET p == CameraTarget(c, direction, moveStep)
         IN  IF InBounds(p)
             THEN [c EXCEPT !.fpPosition =
                     << p[1], EyeLevel(landscapeGetHeight(elev, p[1], p[2])), p[2] >>]
             ELSE c
    ELSE LET moved ==
                 CASE direction = "FORWARD"  ->
                        [c EXCEPT !.orbitDistance = @ - moveStep * 6]
                   [] direction = "BACKWARD" ->
                        [c EXCEPT !.orbitDistance = @ + moveStep * 6]
                   [] direction = "LEFT"     ->
                        [c EXCEPT !.orbitYaw = @ - moveStep * 30]
                   [] direction = "RIGHT"    ->
                        [c EXCEPT !.orbitYaw = @ + moveStep * 30]
             clamped ==
                 [moved EXCEPT !.orbitDistance =
                     Min(Max(@, 2 * CAM_MIN_DIST), 2 * CAM_MAX_DIST)]
         IN  viewCameraUpdateVectors(clamped)

\* viewCameraRotate; deltaYaw and deltaPitch in units of mouse travel.
viewCameraRotate(c, deltaYaw, deltaPitch) ==
    IF c.mode = "FREE_ORBIT"
    THEN viewCameraUpdateVectors(
             [c EXCEPT !.orbitYaw = @ + (deltaYaw * CAM_ORBIT_SENS) \div 100,
                       !.orbitPitch =
                           Max(Min(@ + (deltaPitch * CAM_ORBIT_SENS) \div 100, 89),
                               -89)])
    ELSE viewCameraUpdateVectors(
             [c EXCEPT !.fpYaw = @ + (deltaYaw * CAM_FP_SENS) \div 100,
                       !.fpPitch =
                           Max(Min(@ + (deltaPitch * CAM_FP_SENS) \div 100, 89),
                               -89)])

\* viewCameraSetMode
viewCameraSetMode(c, newMode, elev) ==
    IF c.mode = newMode THEN c
    ELSE IF newMode = "FIRST_PERSON"
    THEN viewCameraUpdateVectors(
             [c EXCEPT !.mode = newMode,
                       !.fpPosition[2] = EyeLevel(
                           landscapeGetHeight(elev, c.fpPosition[1], c.fpPosition[3]))])
    ELSE viewCameraUpdateVectors(
             [c EXCEPT !.mode = newMode,
                       !.orbitDistance = (LANDSCAPE_SCALE * 7 * 2) \div 10,
                       !.orbitYaw = 60,
                       !.orbitPitch = 20])

\* clampCameraToBounds
clampCameraToBounds(c) ==
    IF c.mode = "FIRST_PERSON"
    THEN [c EXCEPT !.fpPosition[1] = Min(Max(@, -HalfTicks), HalfTicks),
                   !.fpPosition[3] = Min(Max(@, -HalfTicks), HalfTicks)]
    ELSE c

\* viewCameraUpdate
viewCameraUpdate(c, elev) ==
    clampCameraToBounds(
        IF c.mode = "FIRST_PERSON"
        THEN [c EXCEPT !.fpPosition[2] = EyeLevel(
                 landscapeGetHeight(elev, c.fpPosition[1], c.fpPosition[3]))]
        ELSE c)

(* -------------------------------- heap --------------------------------- *)

Addr == 1 .. MaxAddr

\* malloc: the lowest free address, or NULL when the allocation fails
\* (ok = FALSE) or no address is free.
Malloc(h, ok) ==
    IF ok /\ (\E a \in Addr : h[a] = "free")
    THEN CHOOSE a \in Addr : h[a] = "free" /\ \A b \in Addr : h[b] = "free" => a <= b
    ELSE NULL

\* The heap once block a (if any) is handed out under a tag.
Take(h, a, tag) == IF a = NULL THEN h ELSE [h EXCEPT ![a] = tag]

\* free(a) of a block; freeing a block that is not live is a double free.
Release(h, a) == [h EXCEPT ![a] = "free"]

(* --------------------------------- state ------------------------------- *)

VARIABLES
    noise,          \* which value-noise field buildHeightField reads
    rng,            \* hidden state of rand()
    heap,           \* [Addr -> tag of the live block, or "free"]
    landscape,      \* main.c: Landscape* landscape (NULL or the struct's address)
    land,           \* the Landscape struct and its five arrays
    pc,             \* position inside landscapeCreate: 0 outside, else the next step
    treeInstances,  \* objects_render.c: TreeInstance* treeInstances
    numTrees,       \* objects_render.c: int numTrees
    treeMem,        \* the instances stored through treeInstances
    boulders,       \* boulder.c: static BoulderInstance* boulders
    numBoulders,    \* boulder.c: static int numBoulders
    boulderMem,     \* the instances stored through boulders
    grassCount,     \* grass.c: static int grassCount
    grassVBO,       \* the vertices uploaded by setupGrassGL
    cam,            \* the ViewCamera struct
    probe,          \* the world coordinate a query is made at
    ret,            \* what the last query returned
    calls,          \* operations issued by the caller so far
    op,             \* the operation that produced this state
    allocLog,       \* tags of the blocks the last operation allocated
    freeLog,        \* tags of the blocks the last operation freed, in order
    fault,          \* "none", or the undefined behaviour the process died of
    scan            \* the placement loop the last scatterer ran: attempts, stores

vars == << noise, rng, heap, landscape, land, pc, treeInstances, numTrees, treeMem,
           boulders, numBoulders, boulderMem, grassCount, grassVBO, cam, probe,
           ret, calls, op, allocLog, freeLog, fault, scan >>

terrainVars == << landscape, land, pc >>
treeVars == << treeInstances, numTrees, treeMem >>
boulderVars == << boulders, numBoulders, boulderMem >>
grassVars == << grassCount, grassVBO >>
queryVars == << probe, ret >>

LandFields == << "elevationData", "vertices", "normals", "texCoords", "indices" >>

\* A Landscape struct whose arrays hold nothing yet (malloc'ed memory is
\* indeterminate; it is kept as zeros and named in no "filled" entry).
EmptyLand(self, mem) ==
    [ self          |-> self,
      mem           |-> mem,
      elevationData |-> [i \in Nodes |-> 0],
      vertices      |-> [i \in Nodes |-> << 0, 0, 0 >>],
      normals       |-> [i \in Nodes |-> << 0, 0, 0 >>],
      texCoords     |-> [i \in Nodes |-> << 0, 0 >>],
      indices       |-> [k \in 0 .. (IndexCount - 1) |-> 0],
      vertexCount   |-> N * N,
      indexCount    |-> IndexCount,
      filled        |-> {} ]

NoLand == EmptyLand(NULL, [f \in {} |-> NULL])

\* The value of ret before any query.
NoRet == [ fn |-> "none" ]

\* The value of scan when the last scatterer call ran no placement loop.
NoScan == [ fn |-> "none" ]

\* The state after construction of the process, for a set of noise fields, a
\* set of probe points and a set of generator seeds.
InitState(fields, probes, seeds) ==
    /\ noise \in fields
    /\ rng \in seeds
    /\ heap = [a \in Addr |-> "free"]
    /\ landscape = NULL
    /\ land = NoLand
    /\ pc = 0
    /\ treeInstances = NULL
    /\ numTrees = 0
    /\ treeMem = << >>
    /\ boulders = NULL
    /\ numBoulders = 0
    /\ boulderMem = << >>
    /\ grassCount = 0
    /\ grassVBO = << >>
    /\ cam = viewCameraCreate
    /\ probe \in probes
    /\ ret = NoRet
    /\ calls = 0
    /\ op = "start"
    /\ allocLog = {}
    /\ freeLog = << >>
    /\ fault = "none"
    /\ scan = NoScan

InitWith(probes, seeds) == InitState(0 .. NumFields, probes, seeds)

Init == InitWith({ << 0, 0 >> }, 0 .. (RngMod - 1))

\* No call is in progress and the process is alive.
Idle == pc = 0 /\ fault = "none"

(* ----------------------------- landscape.c ----------------------------- *)

RECURSIVE AllocArrays(_, _, _, _)
\* The five array mallocs of landscapeCreate, in order; failing names the
\* allocations that fail.
AllocArrays(h, k, failing, mem) ==
    IF k > Len(LandFields) THEN [ heap |-> h, mem |-> mem ]
    ELSE LET f == LandFields[k]
             a == Malloc(h, f \notin failing)
         IN  AllocArrays(Take(h, a, f), k + 1, failing, mem @@ (f :> a))

RECURSIVE FreeArrays(_, _, _, _)
\* landscapeDestroy: free every array whose pointer is not NULL, in order.
FreeArrays(h, k, mem, log) ==
    IF k > Len(LandFields) THEN [ heap |-> h, log |-> log, bad |-> FALSE ]
    ELSE LET a == mem[LandFields[k]]
         IN  IF a = NULL THEN FreeArrays(h, k + 1, mem, log)
             ELSE IF h[a] = "free" THEN [ heap |-> h, log |-> log, bad |-> TRUE ]
             ELSE FreeArrays(Release(h, a), k + 1, mem, Append(log, h[a]))

\* landscapeDestroy that frees the arrays and forgets the struct.
landscapeDestroyArraysOnly(h, l) == FreeArrays(h, 1, l.mem, << >>)

\* landscapeDestroy(l) on heap h, l a live struct: the arrays, then the struct.
landscapeDestroy(h, l) ==
    LET r == FreeArrays(h, 1, l.mem, << >>)
    IN  IF r.bad \/ r.heap[l.self] = "free"
        THEN [ heap |-> r.heap, log |-> r.log, bad |-> TRUE ]
        ELSE [ heap |-> Release(r.heap, l.self),
               log  |-> Append(r.log, r.heap[l.self]), bad |-> FALSE ]

\* landscapeCreate with the normals computed before the mesh is filled.
CreateOrderNormalsEarly ==
    << "buildHeightField", "computeNormals", "fillVerticesAndUVs", "fillIndices" >>

\* The generation steps of landscapeCreate, in the order it calls them.
CreateOrder ==
    << "buildHeightField", "fillVerticesAndUVs", "fillIndices", "computeNormals" >>

\* pc while landscapeCreate is on its way out with NULL.
ReturningNull == 0 - 1

\* landscapeCreate up to the allocation check: the six mallocs and, when one of
\* them failed, the cleanup before "return NULL".
LandscapeCreateAlloc(failing) ==
    /\ Idle
    /\ landscape = NULL
    /\ LET self == Malloc(heap, "land" \notin failing)
           r    == AllocArrays(Take(heap, self, "land"), 1, failing, << >>)
           l    == EmptyLand(self, r.mem)
           d    == landscapeDestroy(r.heap, l)
       IN  IF self = NULL
           THEN /\ UNCHANGED << heap, landscape, land, fault >>
                /\ pc' = ReturningNull
                /\ allocLog' = {}
                /\ freeLog' = << >>
           ELSE IF \E f \in DOMAIN r.mem : r.mem[f] = NULL
           THEN /\ heap' = d.heap
                /\ UNCHANGED << landscape, land >>
                /\ pc' = ReturningNull
                /\ allocLog' = {"land"} \cup {f \in DOMAIN r.mem : r.mem[f] # NULL}
                /\ freeLog' = d.log
                /\ fault' = IF d.bad THEN "double free" ELSE "none"
           ELSE /\ heap' = r.heap
                /\ land' = l
                /\ pc' = 1
                /\ UNCHANGED << landscape, fault >>
                /\ allocLog' = {"land"} \cup DOMAIN r.mem
                /\ freeLog' = << >>
    /\ op' = "landscapeCreate"
    /\ UNCHANGED << noise, rng, treeVars, boulderVars, grassVars, cam, queryVars, scan >>

\* landscapeCreate's "return NULL": the caller is left with a NULL pointer.
LandscapeCreateFail ==
    /\ pc = ReturningNull
    /\ fault = "none"
    /\ pc' = 0
    /\ landscape' = NULL
    /\ op' = "return NULL"
    /\ allocLog' = {}
    /\ freeLog' = << >>
    /\ UNCHANGED << noise, rng, heap, land, treeVars, boulderVars, fault,
                 grassVars, cam, queryVars, scan >>

\* One generation step applied to the struct.
LandStep(name, l) ==
    CASE name = "buildHeightField" ->
           [l EXCEPT !.elevationData = buildHeightField(FieldOf(noise)),
                     !.filled = @ \cup {"elevationData"}]
      [] name = "fillVerticesAndUVs" ->
           [l EXCEPT !.vertices = fillVertices(l.elevationData),
                     !.texCoords = fillTexCoords,
                     !.filled = @ \cup {"vertices", "texCoords"}]
      [] name = "fillIndices" ->
           [l EXCEPT !.indices = fillIndices,
                     !.filled = @ \cup {"indices"}]
      [] name = "computeNormals" ->
           [l EXCEPT !.normals = computeNormals(l.vertices, l.indices, l.indexCount),
                     !.filled = @ \cup {"normals"}]

\* landscapeCreate after the allocation check, were buildHeightField to add a
\* rand() draw to the noise sum of every node.
LandscapeCreateStepSeeded ==
    /\ pc > 0
    /\ fault = "none"
    /\ land' = IF CreateOrder[pc] = "buildHeightField"
               THEN [land EXCEPT
                       !.elevationData =
                           buildHeightField([i \in Nodes |->
                               Min(NoiseDen, FieldOf(noise)[i] + RandAt(rng, i + 1))]),
                       !.filled = @ \cup {"elevationData"}]
               ELSE LandStep(CreateOrder[pc], land)
    /\ rng' = IF CreateOrder[pc] = "buildHeightField" THEN RngAt(rng, N * N) ELSE rng
    /\ pc' = IF pc = Len(CreateOrder) THEN 0 ELSE pc + 1
    /\ landscape' = IF pc = Len(CreateOrder) THEN land.self ELSE landscape
    /\ op' = CreateOrder[pc]
    /\ allocLog' = {}
    /\ freeLog' = << >>
    /\ UNCHANGED << noise, heap, treeVars, boulderVars, fault,
                 grassVars, cam, queryVars, scan >>

\* landscapeCreate after the allocation check: the next generation step; the
\* struct is returned to the caller after the last one.
LandscapeCreateStep ==
    /\ pc > 0
    /\ fault = "none"
    /\ land' = LandStep(CreateOrder[pc], land)
    /\ pc' = IF pc = Len(CreateOrder) THEN 0 ELSE pc + 1
    /\ landscape' = IF pc = Len(CreateOrder) THEN land.self ELSE landscape
    /\ op' = CreateOrder[pc]
    /\ allocLog' = {}
    /\ freeLog' = << >>
    /\ UNCHANGED << noise, rng, heap, treeVars, boulderVars, fault,
                 grassVars, cam, queryVars, scan >>

\* landscapeDestroy(landscape), after which the caller drops the pointer.
LandscapeDestroy ==
    /\ Idle
    /\ LET d == IF landscape = NULL
                THEN [ heap |-> heap, log |-> << >>, bad |-> FALSE ]
                ELSE landscapeDestroy(heap, land)
       IN  /\ heap' = d.heap
           /\ freeLog' = d.log
           /\ fault' = IF d.bad THEN "double free" ELSE "none"
    /\ landscape' = NULL
    /\ land' = NoLand
    /\ pc' = 0
    /\ op' = "landscapeDestroy"
    /\ allocLog' = {}
    /\ UNCHANGED << noise, rng, treeVars, boulderVars, grassVars, cam, queryVars, scan >>

(* --------------------------- objects_render.c -------------------------- *)

\* freeLandscapeObjects, as a function of the heap and the tree variables.
freeLandscapeObjects(h, ptr, n, mem) ==
    IF ptr # NULL
    THEN [ heap |-> Release(h, ptr), ptr |-> NULL, n |-> 0, mem |-> << >>,
           log  |-> << h[ptr] >>, bad |-> h[ptr] = "free" ]
    ELSE [ heap |-> h, ptr |-> ptr, n |-> n, mem |-> mem, log |-> << >>,
           bad  |-> FALSE ]

FreeLandscapeObjects ==
    /\ Idle
    /\ LET f == freeLandscapeObjects(heap, treeInstances, numTrees, treeMem)
       IN  /\ heap' = f.heap
           /\ treeInstances' = f.ptr
           /\ numTrees' = f.n
           /\ treeMem' = f.mem
           /\ freeLog' = f.log
           /\ fault' = IF f.bad THEN "double free" ELSE "none"
    /\ op' = "freeLandscapeObjects"
    /\ allocLog' = {}
    /\ UNCHANGED << noise, rng, terrainVars, boulderVars, grassVars, cam, queryVars, scan >>

\* initLandscapeObjects on a terrain, with no tree array yet and a malloc that
\* succeeds, were it to drop the candidates that stand on a stored boulder.
InitLandscapeObjectsAvoidingBoulders(arg, ok) ==
    /\ Idle
    /\ arg # NULL
    /\ ok
    /\ treeInstances = NULL
    /\ LET a == Malloc(heap, ok)
           r == TreeLoop(land.elevationData, land.normals, treeParams,
                         0, rng, << >>, << >>)
           Clear(t) == \A k \in 1 .. numBoulders :
                          boulderMem[k].x # t.x \/ boulderMem[k].z # t.z
           kept == SelectSeq(r.arr, Clear)
       IN  /\ a # NULL
           /\ heap' = Take(heap, a, "trees")
           /\ treeInstances' = a
           /\ allocLog' = {"trees"}
           /\ freeLog' = << >>
           /\ rng' = r.rng
           /\ scan' = [ fn |-> "initLandscapeObjects", from |-> rng,
                        tried |-> r.tried, stored |-> Len(kept) ]
           /\ fault' = "none"
           /\ numTrees' = Len(kept)
           /\ treeMem' = kept
    /\ op' = "initLandscapeObjects"
    /\ UNCHANGED << noise, terrainVars, boulderVars, grassVars, cam, queryVars >>

\* initLandscapeObjects(arg); ok tells whether its malloc succeeds.
InitLandscapeObjects(arg, ok) ==
    /\ Idle
    /\ LET f == freeLandscapeObjects(heap, treeInstances, numTrees, treeMem)
       IN  IF f.bad
           THEN /\ fault' = "double free"
                /\ UNCHANGED << heap, treeVars, rng >>
                /\ allocLog' = {}
                /\ freeLog' = << >>
                /\ scan' = NoScan
           ELSE IF arg = NULL
           THEN /\ heap' = f.heap
                /\ treeInstances' = f.ptr
                /\ numTrees' = f.n
                /\ treeMem' = f.mem
                /\ allocLog' = {}
                /\ freeLog' = f.log
                /\ scan' = NoScan
                /\ UNCHANGED << rng, fault >>
           ELSE LET a == Malloc(f.heap, ok)
                    r == TreeLoop(land.elevationData, land.normals, treeParams,
                                  0, rng, << >>, << >>)
                IN  /\ heap' = Take(f.heap, a, "trees")
                    /\ scan' = [ fn |-> "initLandscapeObjects", from |-> rng,
                                 tried |-> r.tried, stored |-> Len(r.arr) ]
                    /\ treeInstances' = a
                    /\ allocLog' = IF a = NULL THEN {} ELSE {"trees"}
                    /\ freeLog' = f.log
                    /\ rng' = r.rng
                    /\ IF a = NULL /\ Len(r.arr) > 0
                       THEN \* treeInstances[numTrees++] = ... through NULL
                            \* (numTrees++ is unsequenced with the store)
                            /\ fault' = "null write"
                            /\ numTrees' \in {0, 1}
                            /\ treeMem' = << >>
                       ELSE /\ fault' = "none"
                            /\ numTrees' = Len(r.arr)
                            /\ treeMem' = r.arr
    /\ op' = "initLandscapeObjects"
    /\ UNCHANGED << noise, terrainVars, boulderVars, grassVars, cam, queryVars >>

(* ------------------------------- boulder.c ----------------------------- *)

\* freeBoulders that leaves numBoulders as it was.
freeBouldersKeepCount(h, ptr, n, mem) ==
    IF ptr # NULL
    THEN [ heap |-> Release(h, ptr), ptr |-> NULL, n |-> n, mem |-> << >>,
           log  |-> << h[ptr] >>, bad |-> h[ptr] = "free" ]
    ELSE [ heap |-> h, ptr |-> ptr, n |-> n, mem |-> mem, log |-> << >>,
           bad  |-> FALSE ]

\* freeBoulders, as a function of the heap and the boulder variables.
freeBoulders(h, ptr, n, mem) ==
    IF ptr # NULL
    THEN [ heap |-> Release(h, ptr), ptr |-> NULL, n |-> 0, mem |-> << >>,
           log  |-> << h[ptr] >>, bad |-> h[ptr] = "free" ]
    ELSE [ heap |-> h, ptr |-> ptr, n |-> n, mem |-> mem, log |-> << >>,
           bad  |-> FALSE ]

FreeBoulders ==
    /\ Idle
    /\ LET f == freeBoulders(heap, boulders, numBoulders, boulderMem)
       IN  /\ heap' = f.heap
           /\ boulders' = f.ptr
           /\ numBoulders' = f.n
           /\ boulderMem' = f.mem
           /\ freeLog' = f.log
           /\ fault' = IF f.bad THEN "double free" ELSE "none"
    /\ op' = "freeBoulders"
    /\ allocLog' = {}
    /\ UNCHANGED << noise, rng, terrainVars, treeVars, grassVars, cam, queryVars, scan >>

\* initBoulders(arg); ok tells whether its malloc succeeds.
InitBoulders(arg, ok) ==
    /\ Idle
    /\ LET f == freeBoulders(heap, boulders, numBoulders, boulderMem)
       IN  IF f.bad
           THEN /\ fault' = "double free"
                /\ UNCHANGED << heap, boulderVars, rng >>
                /\ allocLog' = {}
                /\ freeLog' = << >>
                /\ scan' = NoScan
           ELSE IF arg = NULL
           THEN /\ heap' = f.heap
                /\ boulders' = f.ptr
                /\ numBoulders' = f.n
                /\ boulderMem' = f.mem
                /\ allocLog' = {}
                /\ freeLog' = f.log
                /\ scan' = NoScan
                /\ UNCHANGED << rng, fault >>
           ELSE LET a == Malloc(f.heap, ok)
                    r == BoulderLoop(land.elevationData, land.normals, treeMem,
                                     numTrees, rng, 0, << >>, << >>)
                IN  /\ heap' = Take(f.heap, a, "boulders")
                    /\ scan' = [ fn |-> "initBoulders", from |-> rng,
                                 attempts |-> r.attempts, stored |-> Len(r.arr),
                                 cands |-> r.cands ]
                    /\ boulders' = a
                    /\ allocLog' = IF a = NULL THEN {} ELSE {"boulders"}
                    /\ freeLog' = f.log
                    /\ rng' = r.rng
                    /\ IF a = NULL /\ Len(r.arr) > 0
                       THEN \* boulders[numBoulders++] = b through NULL
                            \* (numBoulders++ is unsequenced with the store)
                            /\ fault' = "null write"
                            /\ numBoulders' \in {0, 1}
                            /\ boulderMem' = << >>
                       ELSE /\ fault' = "none"
                            /\ numBoulders' = Len(r.arr)
                            /\ boulderMem' = r.arr
    /\ op' = "initBoulders"
    /\ UNCHANGED << noise, terrainVars, treeVars, grassVars, cam, queryVars >>

(* -------------------------------- grass.c ------------------------------ *)

\* grassSystemInit(l, areaSize, numBlades); ok tells whether its malloc
\* succeeds.  The vertex array is freed by setupGrassGL before it returns.
GrassSystemInit(l, areaSize, numBlades, ok) ==
    /\ Idle
    /\ grassCount' = numBlades
    /\ LET a == Malloc(heap, ok)
           g == generateGrassBlades(land.elevationData, land.normals, areaSize,
                                    numBlades, rng, 0, << >>, << >>)
       IN  IF numBlades > 0 /\ l = NULL
           THEN \* landscapeGetHeight reads land->elevationData through NULL
                /\ fault' = "null read"
                /\ heap' = Take(heap, a, "grass")
                /\ allocLog' = IF a = NULL THEN {} ELSE {"grass"}
                /\ freeLog' = << >>
                /\ scan' = NoScan
                /\ UNCHANGED << rng, grassVBO >>
           ELSE IF a = NULL /\ Len(g.verts) > 0
           THEN \* verts[(*bladeIdx)++] = vert through NULL
                /\ fault' = "null write"
                /\ rng' = g.rng
                /\ allocLog' = {}
                /\ freeLog' = << >>
                /\ scan' = NoScan
                /\ UNCHANGED << heap, grassVBO >>
           ELSE /\ fault' = "none"
                /\ rng' = g.rng
                /\ grassVBO' = setupGrassGL(g.verts, numBlades * 3)
                /\ scan' = [ fn |-> "grassSystemInit", from |-> rng,
                             attempts |-> g.attempts,
                             stored |-> Len(g.verts) \div 3,
                             cands |-> g.cands, bladeIdx |-> Len(g.verts) ]
                /\ allocLog' = IF a = NULL THEN {} ELSE {"grass"}
                /\ freeLog' = IF a = NULL THEN << >> ELSE << "grass" >>
                /\ UNCHANGED heap
    /\ op' = "grassSystemInit"
    /\ UNCHANGED << noise, terrainVars, treeVars, boulderVars, cam, queryVars >>

\* grassSystemCleanup: the vertex buffer is deleted; grassCount is kept.
GrassSystemCleanup ==
    /\ Idle
    /\ grassVBO' = << >>
    /\ op' = "grassSystemCleanup"
    /\ allocLog' = {}
    /\ freeLog' = << >>
    /\ UNCHANGED << noise, rng, heap, terrainVars, treeVars, boulderVars,
                    grassCount, cam, queryVars, scan, fault >>

(* ------------------------------- queries ------------------------------- *)

\* What every query leaves alone.
QueryFrame ==
    /\ allocLog' = {}
    /\ freeLog' = << >>
    /\ UNCHANGED << noise, rng, heap, terrainVars, treeVars, boulderVars,
                    grassVars, cam, probe, scan >>

\* landscapeGetHeight that stores its result in the base cell's node.
LandscapeGetHeightCaching(x, z) ==
    /\ Idle
    /\ landscape # NULL
    /\ LET v == landscapeGetHeight(land.elevationData, x, z)
       IN  /\ ret' = [ fn |-> "landscapeGetHeight", x |-> x, z |-> z, value |-> v ]
           /\ land' = [land EXCEPT
                          !.elevationData[CornerReads(x, z)[1]] = Trunc(v, HDen) + 1]
    /\ op' = "landscapeGetHeight"
    /\ allocLog' = {}
    /\ freeLog' = << >>
    /\ UNCHANGED << noise, rng, heap, landscape, pc, treeVars, boulderVars,
                    grassVars, cam, probe, scan, fault >>

\* A call of landscapeGetHeight(landscape, x, z).
LandscapeGetHeight(x, z) ==
    /\ Idle
    /\ LET reads == CornerReads(x, z)
       IN  IF landscape = NULL
           THEN fault' = "null read" /\ UNCHANGED ret
           ELSE IF \E k \in 1 .. 4 : reads[k] \notin Nodes
           THEN fault' = "out of bounds read" /\ UNCHANGED ret
           ELSE /\ fault' = "none"
                /\ ret' = [ fn |-> "landscapeGetHeight", x |-> x, z |-> z,
                            x0 |-> BaseCell(x), z0 |-> BaseCell(z),
                            fx |-> Frac(x), fz |-> Frac(z), reads |-> reads,
                            value |-> landscapeGetHeight(land.elevationData, x, z) ]
    /\ op' = "landscapeGetHeight"
    /\ QueryFrame

\* A call of one of the three placement validators at (x, z), with the
\* height its scatterer passes.
PlacementValidator(fn, x, z) ==
    /\ Idle
    /\ IF landscape = NULL
       THEN fault' = "null read" /\ UNCHANGED ret
       ELSE /\ fault' = "none"
            /\ LET y == landscapeGetHeight(land.elevationData, x, z)
               IN  ret' = [ fn |-> fn, x |-> x, z |-> z, y |-> y,
                     value |->
                       CASE fn = "isValidBoulderLocation" ->
                              isValidBoulderLocation(land.normals, treeMem, numTrees,
                                                     x, z, y)
                         [] fn = "isValidTreeLocation" ->
                              isValidTreeLocation(land.elevationData, land.normals,
                                                  x, z, treeParams)
                         [] fn = "isValidGrassLocation" ->
                              isValidGrassLocation(land.normals, x, z, y),
                     checks |->
                       CASE fn = "isValidBoulderLocation" ->
                              boulderChecks(land.normals, treeMem, numTrees, x, z, y)
                         [] fn = "isValidTreeLocation" ->
                              treeChecks(land.elevationData, land.normals,
                                         x, z, treeParams)
                         [] fn = "isValidGrassLocation" ->
                              grassChecks(land.normals, x, z, y),
                     samples |->
                       CASE fn = "isValidBoulderLocation" ->
                              boulderSamples(land.normals, x, z)
                         [] fn = "isValidTreeLocation" ->
                              treeSamples(land.normals, x, z)
                         [] fn = "isValidGrassLocation" ->
                              grassSamples(land.normals, x, z, y) ]
    /\ op' = fn
    /\ QueryFrame

\* A call of hash2D(x, y); first keeps what the first call at (x, y) returned.
Hash2D(x, y) ==
    /\ Idle
    /\ LET v == hash2D(x, y)
       IN  ret' = [ fn |-> "hash2D", x |-> x, y |-> y, value |-> v,
                    first |-> IF ret.fn = "hash2D" THEN ret.first ELSE v ]
    /\ op' = "hash2D"
    /\ UNCHANGED fault
    /\ QueryFrame

Validators == { "isValidBoulderLocation", "isValidTreeLocation", "isValidGrassLocation" }

(* ------------------------------- camera.c ------------------------------ *)

\* What every camera call leaves alone.
CameraFrame ==
    /\ allocLog' = {}
    /\ freeLog' = << >>
    /\ UNCHANGED << noise, rng, heap, terrainVars, treeVars, boulderVars,
                    grassVars, queryVars, scan >>

\* A camera call that reads the terrain dies when landscape is NULL.
CameraCall(reads, c) ==
    IF reads /\ landscape = NULL
    THEN fault' = "null read" /\ UNCHANGED cam
    ELSE fault' = "none" /\ cam' = c

Directions == { "FORWARD", "BACKWARD", "LEFT", "RIGHT" }
Modes == { "FIRST_PERSON", "FREE_ORBIT" }

\* viewCameraMove(cam, direction, deltaTime), deltaTime in 1/36 s.
ViewCameraMove(direction, deltaTime) ==
    /\ Idle
    /\ LET moveStep == (CAM_WALK_SPEED * deltaTime) \div 18
       IN  CameraCall(cam.mode = "FIRST_PERSON"
                        /\ InBounds(CameraTarget(cam, direction, moveStep)),
                      viewCameraMove(cam, direction, moveStep, land.elevationData))
    /\ op' = "viewCameraMove"
    /\ CameraFrame

\* Mouse travel whose product with either sensitivity is a whole multiple of
\* 30 degrees; a pitch change of that size always meets the limit.
MouseDeltas == { -3000, 0, 3000 }

\* viewCameraRotate(cam, deltaYaw, deltaPitch)
ViewCameraRotate(deltaYaw, deltaPitch) ==
    /\ Idle
    /\ CameraCall(FALSE, viewCameraRotate(cam, deltaYaw, deltaPitch))
    /\ op' = "viewCameraRotate"
    /\ CameraFrame

\* viewCameraSetMode(cam, newMode)
ViewCameraSetMode(newMode) ==
    /\ Idle
    /\ CameraCall(cam.mode # newMode /\ newMode = "FIRST_PERSON",
                  viewCameraSetMode(cam, newMode, land.elevationData))
    /\ op' = "viewCameraSetMode"
    /\ CameraFrame

\* viewCameraUpdate(cam, deltaTime)
ViewCameraUpdate ==
    /\ Idle
    /\ CameraCall(cam.mode = "FIRST_PERSON",
                  viewCameraUpdate(cam, land.elevationData))
    /\ op' = "viewCameraUpdate"
    /\ CameraFrame

(* ------------------------------ the program ---------------------------- *)

\* One more operation issued by the caller, while the budget lasts.
Issue == calls < MaxCalls /\ calls' = calls + 1

\* Every way the five array allocations and the struct allocation can fail.
Failures == SUBSET ({"land"} \cup {LandFields[k] : k \in 1 .. Len(LandFields)})

\* The scene's lifecycle: terrain, trees, boulders and grass are built, torn
\* down and rebuilt in any order, MaxCalls operations deep.  The landscape
\* argument is main.c's global.
Next ==
    \/ \E failing \in {{}, {"land"}, {"normals", "indices"}} :
          LandscapeCreateAlloc(failing) /\ UNCHANGED calls
    \/ LandscapeCreateStep /\ UNCHANGED calls
    \/ LandscapeCreateFail /\ UNCHANGED calls
    \/ Issue /\ LandscapeDestroy
    \/ \E ok \in BOOLEAN : Issue /\ InitLandscapeObjects(landscape, ok)
    \/ Issue /\ FreeLandscapeObjects
    \/ \E ok \in BOOLEAN : Issue /\ InitBoulders(landscape, ok)
    \/ Issue /\ FreeBoulders
    \/ \E n \in 0 .. MaxBlades, ok \in BOOLEAN :
          Issue /\ GrassSystemInit(landscape, LANDSCAPE_SCALE, n, ok)
    \/ Issue /\ GrassSystemCleanup

Spec == Init /\ [][Next]_vars

\* landscapeCreate and landscapeDestroy alone, under every allocation failure.
NextCreate ==
    \/ \E failing \in Failures : LandscapeCreateAlloc(failing) /\ UNCHANGED calls
    \/ LandscapeCreateStep /\ UNCHANGED calls
    \/ LandscapeCreateFail /\ UNCHANGED calls
    \/ LandscapeDestroy /\ UNCHANGED calls

SpecCreate == Init /\ [][NextCreate]_vars

\* The coordinates landscapeGetHeight is probed at: a lattice reaching
\* ProbeMargin ticks beyond the terrain's edge, and every vertex coordinate.
ProbeCoords ==
    { c \in (-(HalfTicks + ProbeMargin)) .. (HalfTicks + ProbeMargin) :
          c % ProbeStep = 0 }
      \cup { Trunc((2 * i - N) * HalfTicks, N) : i \in 0 .. (N - 1) }

InitQuery == InitWith(ProbeCoords \X ProbeCoords, {1})

\* One landscapeGetHeight call at the probe point on a freshly built terrain.
NextQuery ==
    \/ LandscapeCreateAlloc({}) /\ UNCHANGED calls
    \/ LandscapeCreateStep /\ UNCHANGED calls
    \/ /\ landscape # NULL
       /\ ret.fn = "none"
       /\ LandscapeGetHeight(probe[1], probe[2])
       /\ UNCHANGED calls

SpecQuery == InitQuery /\ [][NextQuery]_vars

\* The probe points of the frame loop: one inside the terrain, one outside.
FrameProbes == { << HalfTicks \div 3, -(HalfTicks \div 2) >>,
                 << HalfTicks + ProbeMargin, 0 >> }

InitFrame == InitWith(FrameProbes, {1})

\* The terrain is built once; then the frame loop issues up to MaxCalls
\* operations on it.
NextFrame ==
    \/ LandscapeCreateAlloc({}) /\ UNCHANGED calls
    \/ LandscapeCreateStep /\ UNCHANGED calls
    \/ landscape # NULL /\ Issue /\ LandscapeDestroy
    \/ landscape # NULL /\ Issue /\ LandscapeGetHeight(probe[1], probe[2])
    \/ \E fn \in Validators :
          landscape # NULL /\ Issue /\ PlacementValidator(fn, probe[1], probe[2])
    \/ landscape # NULL /\ Issue /\ InitLandscapeObjects(landscape, TRUE)
    \/ landscape # NULL /\ Issue /\ InitBoulders(landscape, TRUE)
    \/ landscape # NULL /\ Issue
          /\ GrassSystemInit(landscape, LANDSCAPE_SCALE, MaxBlades, TRUE)
    \/ \E d \in Directions :
          landscape # NULL /\ Issue /\ ViewCameraMove(d, MoveTime)
    \/ \E m \in Modes : landscape # NULL /\ Issue /\ ViewCameraSetMode(m)
    \/ landscape # NULL /\ Issue /\ ViewCameraUpdate

SpecFrame == InitFrame /\ [][NextFrame]_vars

InitCamera == InitState(0 .. NumFields, { << 0, 0 >> }, {1})

\* The terrain is built once; then up to MaxCalls camera calls are made, as
\* the key, mouse and frame callbacks make them.
NextCamera ==
    \/ LandscapeCreateAlloc({}) /\ UNCHANGED calls
    \/ LandscapeCreateStep /\ UNCHANGED calls
    \/ \E m \in Modes : landscape # NULL /\ Issue /\ ViewCameraSetMode(m)
    \/ \E d \in Directions :
          landscape # NULL /\ Issue /\ ViewCameraMove(d, MoveTime)
    \/ \E dy \in MouseDeltas \ {0}, dp \in MouseDeltas :
          landscape # NULL /\ Issue /\ ViewCameraRotate(dy, dp)
    \/ landscape # NULL /\ Issue /\ ViewCameraUpdate

SpecCamera == InitCamera /\ [][NextCamera]_vars

\* Lattice coordinates hash2D is called with: the ends of the int range, the
\* neighbourhood of zero, and values in between.
HashCoords ==
    { MinInt, 0 - MaxInt, 0 - 987654321, 0 - 71, 0 - 1, 0, 1, 2, 53, 8191, 65536,
      MaxInt }

InitHash == InitWith(HashCoords \X HashCoords, {1})

\* hash2D called again and again at the probe.
NextHash == Issue /\ Hash2D(probe[1], probe[2])

SpecHash == InitHash /\ [][NextHash]_vars

\* One placement validator call at the probe point on a freshly built terrain.
NextSample ==
    \/ LandscapeCreateAlloc({}) /\ UNCHANGED calls
    \/ LandscapeCreateStep /\ UNCHANGED calls
    \/ \E fn \in Validators :
          /\ landscape # NULL
          /\ ret.fn = "none"
          /\ PlacementValidator(fn, probe[1], probe[2])
          /\ UNCHANGED calls

SpecSample == InitQuery /\ [][NextSample]_vars

\* The query at the origin of a freshly built terrain, for every choice of noise
\* levels at the nodes it reads.
InitOrigin ==
    InitState({ NumFields + 1 + q : q \in OriginFields }, { << 0, 0 >> }, {1})

SpecOrigin == InitOrigin /\ [][NextQuery]_vars

(* ------------------------------- properties ---------------------------- *)

\* Tags of the blocks landscapeCreate allocates.
LandTags == {"land"} \cup {LandFields[k] : k \in 1 .. Len(LandFields)}

\* The range of a sequence.
Range(q) == {q[k] : k \in 1 .. Len(q)}

\* Boulder b and tree t are at least 4.0 + t.scale * 0.5 apart (horizontally).
Apart(b, t) ==
    LET dx == b.x - t.x
        dz == b.z - t.z
    IN  (dx * dx + dz * dz) * (20 * TickDen) * (20 * TickDen)
          >= ((80 + t.scale) * TickNum) * ((80 + t.scale) * TickNum)

\* C1 (Spec): in every state reached by initLandscapeObjects, initBoulders,
\* freeLandscapeObjects and freeBoulders calls on a constructed terrain, every
\* stored boulder is at least 4.0 + t.scale * 0.5 away from every stored tree t.
C1_BoulderTreeDistance ==
    (landscape # NULL /\ fault = "none") =>
        \A b \in 1 .. numBoulders, t \in 1 .. numTrees :
            Apart(boulderMem[b], treeMem[t])

\* C2 (Spec): every instance a scatterer has just stored passes its family's
\* own placement validator on the terrain, and its y is landscapeGetHeight at
\* its (x, z): boulders after initBoulders, trees after initLandscapeObjects,
\* written grass vertices after grassSystemInit.
C2_EmittedInstancesValid ==
    /\ (op = "initBoulders" /\ fault = "none") =>
          \A k \in 1 .. numBoulders :
              LET b == boulderMem[k]
              IN  /\ b.y = landscapeGetHeight(land.elevationData, b.x, b.z)
                  /\ isValidBoulderLocation(land.normals, treeMem, numTrees,
                                            b.x, b.z, b.y)
    /\ (op = "initLandscapeObjects" /\ fault = "none") =>
          \A k \in 1 .. numTrees :
              LET t == treeMem[k]
              IN  /\ t.y = landscapeGetHeight(land.elevationData, t.x, t.z)
                  /\ isValidTreeLocation(land.elevationData, land.normals,
                                         t.x, t.z, treeParams)
    /\ (op = "grassSystemInit" /\ fault = "none") =>
          \A k \in 1 .. Len(grassVBO) :
              LET v == grassVBO[k]
              IN  v.written =>
                      /\ v.y = landscapeGetHeight(land.elevationData, v.x, v.z)
                      /\ isValidGrassLocation(land.normals, v.x, v.z, v.y)

\* C2's case: initBoulders has stored boulders next to existing trees, and
\* grass has been written too.
C2_Witness ==
    /\ op = "initBoulders"
    /\ fault = "none"
    /\ numBoulders > 0
    /\ numTrees > 0
    /\ \E k \in 1 .. Len(grassVBO) : grassVBO[k].written

\* C3 (SpecQuery): landscapeGetHeight at the vertex position of a grid node
\* returns exactly that node's elevation.
C3_NodeRoundTrip ==
    \A idx \in Nodes :
        ( /\ ret.fn = "landscapeGetHeight"
          /\ ret.x = land.vertices[idx][1]
          /\ ret.z = land.vertices[idx][3] )
        => ret.value = land.elevationData[idx] * HDen

\* The elevations landscapeGetHeight read for ret.
CornerValues == {land.elevationData[ret.reads[k]] : k \in 1 .. 4}

\* C4 (SpecQuery): landscapeGetHeight never extrapolates: both fractions are
\* in [0, 1] and the result lies between the least and the greatest of the
\* four corner elevations, for points outside the terrain too.
C4_NoExtrapolation ==
    ret.fn = "landscapeGetHeight" =>
        /\ ret.fx >= 0 /\ ret.fx <= GridDen
        /\ ret.fz >= 0 /\ ret.fz <= GridDen
        /\ \E lo \in CornerValues : lo * HDen <= ret.value
        /\ \E hi \in CornerValues : ret.value <= hi * HDen

\* C5 (SpecQuery): landscapeGetHeight reads only inside elevationData, from a
\* base cell in [0, N-2] x [0, N-2], and returns a value at every point.
C5_ReadsInRange ==
    /\ fault # "out of bounds read"
    /\ (op = "landscapeGetHeight" /\ landscape # NULL) =>
          /\ ret.fn = "landscapeGetHeight"
          /\ ret.x0 \in 0 .. (N - 2)
          /\ ret.z0 \in 0 .. (N - 2)
          /\ \A k \in 1 .. 4 : ret.reads[k] \in 0 .. (N * N - 1)

\* C5's case: a query beyond the far edge in x and more than a cell before
\* the near edge in z, so that both clamps act.
C5_Witness ==
    /\ ret.fn = "landscapeGetHeight"
    /\ ret.x > HalfTicks
    /\ ToGrid(ret.z) <= -GridDen
    /\ ret.x0 = N - 2
    /\ ret.z0 = 0

\* C6 (SpecCreate): when any allocation of landscapeCreate fails, it returns
\* NULL, no generation step has run, and what it had allocated (arrays and
\* struct) is freed, each block exactly once; a create that goes on to the
\* generation steps had all six allocations succeed.
C6_FailedCreateCleansUp ==
    /\ fault = "none"
    /\ pc = ReturningNull =>
          /\ landscape = NULL
          /\ land.filled = {}
          /\ Len(freeLog) = Cardinality(allocLog)
          /\ Range(freeLog) = allocLog
          /\ \A a \in Addr : heap[a] = "free"
    /\ (op = "landscapeCreate" /\ pc # ReturningNull) =>
          /\ pc = 1
          /\ allocLog = LandTags
          /\ \A t \in LandTags : Cardinality({a \in Addr : heap[a] = t}) = 1

\* C6's case: the struct and two arrays were allocated, three arrays failed.
C6_Witness ==
    /\ pc = ReturningNull
    /\ allocLog = {"land", "elevationData", "normals"}
    /\ freeLog = << "elevationData", "normals", "land" >>

\* C7 (Spec): when the malloc of an instance array fails, nothing is written
\* through the unallocated (NULL) array.
C7_NoWriteThroughNull == fault # "null write"

\* Live blocks of a family.
Live(tag) == {a \in Addr : heap[a] = tag}

\* C8 (Spec): after any sequence of init and free calls of the tree and
\* boulder families, a family has at most one live array, the one its pointer
\* names; no array is freed twice; and while the pointer is NULL the count is 0.
C8_WholeArrayLifecycle ==
    /\ fault # "double free"
    /\ Live("trees") = (IF treeInstances = NULL THEN {} ELSE {treeInstances})
    /\ Live("boulders") = (IF boulders = NULL THEN {} ELSE {boulders})
    /\ fault = "none" =>
          /\ treeInstances = NULL => numTrees = 0
          /\ boulders = NULL => numBoulders = 0
          /\ numTrees = Len(treeMem)
          /\ numBoulders = Len(boulderMem)

\* C8's case: a second initBoulders freed the live array and filled a new one.
C8_Witness ==
    /\ op = "initBoulders"
    /\ freeLog = << "boulders" >>
    /\ allocLog = {"boulders"}
    /\ numBoulders > 0

\* C9 (SpecCreate): landscapeCreate runs heightfield, then vertices and
\* texcoords, then indices, then normals; the normals are computed from the
\* filled vertices and indices; and the caller holds a terrain only once the
\* normals are complete.
C9_GenerationOrder ==
    /\ pc = 1 => land.filled = {}
    /\ pc = 2 => land.filled = {"elevationData"}
    /\ pc = 3 => land.filled = {"elevationData", "vertices", "texCoords"}
    /\ pc = 4 => land.filled = {"elevationData", "vertices", "texCoords", "indices"}
    /\ pc > 0 => landscape = NULL
    /\ "normals" \in land.filled =>
          /\ land.filled = {"elevationData", "vertices", "texCoords", "indices",
                            "normals"}
          /\ land.vertices = fillVertices(land.elevationData)
          /\ land.indices = fillIndices
          /\ land.normals = computeNormals(land.vertices, land.indices,
                                           land.indexCount)
    /\ landscape # NULL => "normals" \in land.filled

\* C9's case: the last step has run and the terrain is with the caller.
C9_Witness ==
    /\ landscape # NULL
    /\ op = "computeNormals"
    /\ \E k \in Nodes : land.normals[k][2] > 0 /\ land.normals[k][2] < NormRes

\* The terrain data of a Landscape struct.
Terrain(l) ==
    << l.elevationData, l.vertices, l.normals, l.texCoords, l.indices,
       l.vertexCount, l.indexCount >>

\* C10 (SpecFrame): once landscapeCreate has returned, a step that is not
\* landscapeDestroy (a height query, a validator, a scatterer's init, a camera
\* call) leaves the arrays and counts of the terrain as they were.
C10_TerrainFrame ==
    [][(landscape # NULL /\ op' # "landscapeDestroy")
          => (landscape' = landscape /\ Terrain(land') = Terrain(land))]_vars

\* C10's case: the first-person camera has walked over the terrain.
C10_Witness ==
    /\ landscape # NULL
    /\ op = "viewCameraMove"
    /\ cam.mode = "FIRST_PERSON"
    /\ InBounds(<< cam.fpPosition[1], cam.fpPosition[3] >>)
    /\ cam.fpPosition[2] =
          EyeLevel(landscapeGetHeight(land.elevationData, cam.fpPosition[1],
                                      cam.fpPosition[3]))

C12_OneAttemptPerCell ==
    (op = "initLandscapeObjects" /\ scan.fn = "initLandscapeObjects") =>
        LET cells == treeParams.density * treeParams.density
        IN  /\ [k \in 1 .. Len(scan.tried) |-> scan.tried[k].cell]
                  = [k \in 1 .. cells |-> k - 1]
            /\ scan.stored <= cells
            /\ rng = RngAt(scan.from, 2 * cells + 5 * scan.stored)
            /\ fault = "none" =>
                  /\ numTrees = scan.stored
                  /\ DOMAIN treeMem = 1 .. scan.stored

\* C12's case: some cells passed validation and some did not.
C12_Witness ==
    /\ op = "initLandscapeObjects"
    /\ fault = "none"
    /\ scan.fn = "initLandscapeObjects"
    /\ numTrees > 0
    /\ numTrees < treeParams.density * treeParams.density

\* C13 (Spec): after grassSystemInit the vertices uploaded, and the
\* grassCount * 3 vertices a render draws, are three for each draw that
\* passed validation, and none of them is a slot that was never written.
C13_UploadedAreWritten ==
    (op = "grassSystemInit" /\ fault = "none" /\ scan.fn = "grassSystemInit") =>
        /\ Len(grassVBO) = 3 * scan.stored
        /\ grassCount * 3 = 3 * scan.stored
        /\ \A k \in 1 .. Len(grassVBO) : grassVBO[k].written

\* C14 (Spec): grassSystemInit with numBlades = 0 makes no draw, writes and
\* uploads no vertex, draws none, and ends without a fault, whether or not
\* its malloc(0) returned a block and whether or not a terrain exists.
C14_ZeroBlades ==
    (op = "grassSystemInit" /\ grassCount = 0) =>
        /\ fault = "none"
        /\ scan.fn = "grassSystemInit"
        /\ scan.attempts = 0
        /\ scan.stored = 0
        /\ rng = scan.from
        /\ grassVBO = << >>
        /\ \A a \in Addr : heap[a] # "grass"

\* C14's case: zero blades asked for on a constructed terrain, malloc(0)
\* having returned a block.
C14_Witness ==
    /\ op = "grassSystemInit"
    /\ grassCount = 0
    /\ landscape # NULL
    /\ allocLog = {"grass"}

\* The three vertex indices of triangle t of the index array.
Triangle(t) ==
    << land.indices[3 * t], land.indices[3 * t + 1], land.indices[3 * t + 2] >>

\* The face normal computeNormals takes for triangle t.
TriangleNormal(t) ==
    FaceNormal(land.vertices[Triangle(t)[1]], land.vertices[Triangle(t)[2]],
               land.vertices[Triangle(t)[3]])

\* C15 (SpecCreate): once fillIndices has run, vertexCount = N * N and
\* indexCount = (N-1) * (N-1) * 6; the index array holds exactly indexCount
\* entries, each in 0 .. N*N - 1; and each grid cell owns two triangles whose
\* six indices are the four corners of that cell.
C15_IndexBuffer ==
    "indices" \in land.filled =>
        /\ land.vertexCount = N * N
        /\ land.indexCount = (N - 1) * (N - 1) * 6
        /\ DOMAIN land.indices = 0 .. (land.indexCount - 1)
        /\ \A k \in DOMAIN land.indices : land.indices[k] \in 0 .. (N * N - 1)
        /\ \A z \in 0 .. (N - 2), x \in 0 .. (N - 2) :
              LET t == 2 * (z * (N - 1) + x)
                  corners == { z * N + x, z * N + x + 1,
                               (z + 1) * N + x, (z + 1) * N + x + 1 }
              IN  /\ Cardinality(Range(Triangle(t))) = 3
                  /\ Cardinality(Range(Triangle(t + 1))) = 3
                  /\ Range(Triangle(t)) \cup Range(Triangle(t + 1)) = corners

\* C15's case: fillIndices has just written the last corner of the last cell.
C15_Witness ==
    /\ op = "fillIndices"
    /\ pc = 4
    /\ land.indices[land.indexCount - 1] = N * N - 1

\* C16 (SpecCreate): every triangle of the index array is wound the same way:
\* the y components of all face normals taken by computeNormals have one
\* sign, whatever the elevations.
C16_SameWinding ==
    ({"vertices", "indices"} \subseteq land.filled) =>
        LET tris == 0 .. ((land.indexCount \div 3) - 1)
        IN  \/ \A t \in tris : TriangleNormal(t)[2] > 0
            \/ \A t \in tris : TriangleNormal(t)[2] < 0

\* C16's case: the mesh is built over uneven ground (a face normal leans).
C16_Witness ==
    /\ {"vertices", "indices"} \subseteq land.filled
    /\ \E t \in 0 .. ((land.indexCount \div 3) - 1) :
          TriangleNormal(t)[1] # 0 /\ TriangleNormal(t)[3] # 0

\* The squared magnitude of a vector.
Norm2(n) == n[1] * n[1] + n[2] * n[2] + n[3] * n[3]

\* The epsilon of the fixed-point normals: 2% of the unit length.
NormEps == NormRes \div 50

\* C17 (SpecCreate): after computeNormals every vertex normal has magnitude
\* 1 within epsilon, unless the sum of its face normals had no length, in
\* which case it is left as accumulated.
C17_UnitNormals ==
    "normals" \in land.filled =>
        \A k \in Nodes :
            LET sum == AccumNormals(land.vertices, land.indices,
                                    land.indexCount, 0, k)
                n   == land.normals[k]
            IN  IF Norm2(<< Trunc(sum[1], NormPreScale),
                            Trunc(sum[2], NormPreScale),
                            Trunc(sum[3], NormPreScale) >>) > 0
                THEN /\ Norm2(n) >= (NormRes - NormEps) * (NormRes - NormEps)
                     /\ Norm2(n) <= (NormRes + NormEps) * (NormRes + NormEps)
                ELSE n = sum

\* C17's case: a normal that leans in both directions was normalised.
C17_Witness ==
    /\ "normals" \in land.filled
    /\ \E k \in Nodes :
          /\ land.normals[k][1] # 0
          /\ land.normals[k][3] # 0
          /\ Norm2(land.normals[k]) > 0

\* The operations that make up landscapeCreate.
CreateOps == {"landscapeCreate", "return NULL"} \cup Range(CreateOrder)

C19_FamiliesIndependent ==
    [][/\ (op' = "initLandscapeObjects") =>
             /\ UNCHANGED << boulderVars, grassVars >>
             /\ (scan'.fn = "initLandscapeObjects" /\ fault' = "none") =>
                   treeMem' = TreeLoop(land.elevationData, land.normals,
                                       treeParams, 0, rng, << >>, << >>).arr
       /\ (op' = "grassSystemInit") =>
             /\ UNCHANGED << treeVars, boulderVars >>
             /\ (scan'.fn = "grassSystemInit" /\ fault' = "none") =>
                   grassVBO' =
                       setupGrassGL(
                           generateGrassBlades(land.elevationData, land.normals,
                               LANDSCAPE_SCALE, grassCount', rng, 0, << >>,
                               << >>).verts,
                           grassCount' * 3)
       /\ (op' = "initBoulders") => UNCHANGED << treeVars, grassVars >>]_vars

\* C19's case: trees were scattered while boulders were stored.
C19_Witness ==
    /\ op = "initLandscapeObjects"
    /\ fault = "none"
    /\ numTrees > 0
    /\ numBoulders > 0

\* C20 (SpecHash): with int arithmetic modulo 2^32, hash2D returns a value in
\* [-1, 1] at every pair of lattice coordinates, and a repeated call returns
\* what the first call returned.
C20_HashRange ==
    ret.fn = "hash2D" =>
        /\ ret.value >= 0 - HashDen
        /\ ret.value <= HashDen
        /\ ret.value = ret.first

\* C20's case: a second call at the least int, where the sums and products
\* wrap around, returning a negative value.
C20_Witness ==
    /\ ret.fn = "hash2D"
    /\ calls >= 2
    /\ ret.x = MinInt
    /\ ret.value < 0

CheckRank(c) ==
    CASE c = "height" -> 1 [] c = "water" -> 1 [] c = "slope" -> 2
      [] c = "collision" -> 3

\* C22 (SpecFrame): a placement validator evaluates its checks in the order
\* height bounds, slope bounds, collision: the first check it evaluates is a
\* height check and no check is evaluated after one of a later kind.
C22_CheckOrder ==
    (ret.fn \in Validators /\ fault = "none") =>
        /\ ret.checks[1] = "height"
        /\ \A i, j \in 1 .. Len(ret.checks) :
              i < j => CheckRank(ret.checks[i]) <= CheckRank(ret.checks[j])

\* C23 (SpecSample): at every probed (x, z), inside the terrain or beyond its
\* edge, the normal a placement validator reads is the one at index
\* z0 * N + x0, (x0, z0) the clamped base cell landscapeGetHeight computes
\* there; the index is within [0, N*N - 1]; and the slope the validator works
\* with is that one node's clamped y component.
C23_SameNormalNode ==
    (ret.fn \in Validators /\ fault = "none") =>
        \A k \in 1 .. Len(ret.samples) :
            LET idx == ret.samples[k][1]
            IN  /\ idx = CornerReads(ret.x, ret.z)[1]
                /\ idx \in Nodes
                /\ ret.samples[k][2] = ClampUnit(land.normals[idx][2])

\* The grass validator has read a normal at a probe in the upper half of a
\* cell, and one beyond the terrain's high-x edge, where the base cell is
\* clamped.
C23_Witness ==
    /\ ret.fn = "isValidGrassLocation"
    /\ fault = "none"
    /\ Len(ret.samples) = 1
    /\ ret.x > HalfTicks
    /\ 2 * Frac(ret.z) > GridDen
    /\ Frac(ret.z) < GridDen

\* |c| <= h
Within(c, h) == c >= 0 - h /\ c <= h

\* Half of 98% of the terrain width, in ticks (generateGrassBlade's halfScale
\* for areaSize = LANDSCAPE_SCALE).
HalfScale98 == (LANDSCAPE_SCALE * 98 * TickNum) \div (2 * 100 * TickDen)

\* C24 (Spec): every candidate position a scatterer draws lies in its
\* family's scaled square: |x|, |z| <= 0.95 * S / 2 for boulders and for the
\* jittered tree candidates, <= 0.98 * S / 2 for grass; and a tree candidate
\* is at most half a cell width from its cell's corner -halfScale + i * step.
C24_CandidatesInSquare ==
    /\ scan.fn = "initBoulders" =>
          \A k \in 1 .. Len(scan.cands) :
              /\ Within(scan.cands[k][1], HalfScale95)
              /\ Within(scan.cands[k][2], HalfScale95)
    /\ scan.fn = "grassSystemInit" =>
          \A k \in 1 .. Len(scan.cands) :
              /\ Within(scan.cands[k][1], HalfScale98)
              /\ Within(scan.cands[k][2], HalfScale98)
    /\ scan.fn = "initLandscapeObjects" =>
          \A k \in 1 .. Len(scan.tried) :
              LET c    == scan.tried[k]
                  grid == treeParams.density
                  jx   == (c.x + HalfScale95) * grid - (c.cell \div grid) * Scale95
                  jz   == (c.z + HalfScale95) * grid - (c.cell % grid) * Scale95
              IN  /\ Within(c.x, HalfScale95)
                  /\ Within(c.z, HalfScale95)
                  /\ Within(2 * jx, Scale95)
                  /\ Within(2 * jz, Scale95)

\* C25 (Spec): every boulder stored by initBoulders has its rotation in
\* [0, 360) degrees and its colorIndex in 0 .. 7.
C25_BoulderAttributes ==
    fault = "none" =>
        \A k \in 1 .. numBoulders :
            /\ boulderMem[k].rotation >= 0
            /\ boulderMem[k].rotation < 360
            /\ boulderMem[k].colorIndex \in 0 .. 7

C27_ExactAtNodes ==
    (ret.fn = "landscapeGetHeight" /\ fault = "none") =>
        LET i == ToGrid(ret.x) \div GridDen
            j == ToGrid(ret.z) \div GridDen
        IN  (/\ ToGrid(ret.x) % GridDen = 0
             /\ ToGrid(ret.z) % GridDen = 0
             /\ i \in 0 .. (N - 1)
             /\ j \in 0 .. (N - 1)) =>
                ret.value = land.elevationData[j * N + i] * HDen

\* The query was made at a node of the last column, on a field where that
\* node and its neighbour in the base cell differ in elevation.
C27_Witness ==
    /\ ret.fn = "landscapeGetHeight"
    /\ fault = "none"
    /\ ToGrid(ret.x) = (N - 1) * GridDen
    /\ ToGrid(ret.z) % GridDen = 0
    /\ ToGrid(ret.z) \div GridDen \in 0 .. (N - 1)
    /\ ret.x0 = N - 2
    /\ ret.fx = GridDen
    /\ land.elevationData[ret.reads[1]] # land.elevationData[ret.reads[2]]

\* The number of triangles of the index array that have vertex k as a corner.
TrianglesAt(k) ==
    Cardinality({ t \in 0 .. (land.indexCount \div 3 - 1) :
                    \E c \in 1 .. 3 : Triangle(t)[c] = k })

\* The xz area of a grid cell, in square ticks.
CellArea ==
    LET d == land.vertices[N + 1][1] - land.vertices[0][1]
    IN  d * d

\* C28 (SpecFrame): in landscapeCreate, once the mesh is filled, every vertex is a corner of at
\* least 1 and at most 6 triangles and every face normal has the same
\* positive y component, the cell's xz area; once computeNormals has run,
\* every accumulated vertex normal has y > 0 and a positive length (the
\* division is never skipped), every stored normal has y > 0, and the slope
\* a validator samples is strictly below pi/2 (its cosine is positive).
C28_NormalsPointUp ==
    /\ (op \in CreateOps /\ {"vertices", "indices"} \subseteq land.filled) =>
          /\ \A k \in Nodes : TrianglesAt(k) >= 1 /\ TrianglesAt(k) <= 6
          /\ CellArea > 0
          /\ \A t \in 0 .. (land.indexCount \div 3 - 1) :
                TriangleNormal(t)[2] = CellArea
    /\ (op \in CreateOps /\ "normals" \in land.filled) =>
          \A k \in Nodes :
              LET acc == AccumNormals(land.vertices, land.indices,
                                      land.indexCount, 0, k)
              IN  /\ acc[2] > 0
                  /\ acc[2] = TrianglesAt(k) * CellArea
                  /\ NormalLength(acc) > 0
                  /\ land.normals[k][2] > 0
    /\ (ret.fn \in Validators /\ fault = "none") =>
          \A k \in 1 .. Len(ret.samples) :
              /\ ret.samples[k][2] > 0
              /\ SlopeLess(ret.samples[k][2], 0)

\* A validator sampled a tilted normal on a built terrain whose mesh has a
\* vertex in one triangle and a vertex in six.
C28_Witness ==
    /\ ret.fn \in Validators
    /\ fault = "none"
    /\ "normals" \in land.filled
    /\ Len(ret.samples) = 1
    /\ ret.samples[1][2] < NormRes
    /\ TrianglesAt(0) = 1
    /\ \E k \in Nodes : TrianglesAt(k) = 6

\* C29 (SpecSample): with the parameters initLandscapeObjects sets, the
\* water-distance test of isValidTreeLocation (y - WATER_LEVEL < 1.0) never
\* rejects a place that passed the minimum-height test (y >= WATER_LEVEL +
\* 1.5), the minimum-slope test (slope < 0) rejects no place, and the valid
\* places are exactly those with WATER_LEVEL + 1.5 <= height <=
\* LANDSCAPE_HEIGHT * 1.2 and normalized slope <= 0.35.
C29_TreeValidSet ==
    (ret.fn = "isValidTreeLocation" /\ fault = "none") =>
        LET y     == ret.y
            slope == ret.samples[1][2]
            last  == ret.checks[Len(ret.checks)]
        IN  /\ (last = "water") => ret.value
            /\ (~ ret.value /\ last = "slope") =>
                   SlopeGreater(slope, CosTreeSlope)
            /\ ~ SlopeLess(slope, CosDen)
            /\ ret.value =
                 (/\ ~ HeightLess(y, 2 * WATER_LEVEL + 3, 2)
                  /\ ~ HeightGreater(y, LANDSCAPE_HEIGHT * 12, 10)
                  /\ ~ SlopeGreater(slope, CosTreeSlope))

\* isValidTreeLocation accepted a place on sloping ground less than 2 world
\* units above the water: every test was evaluated.
C29_Witness ==
    /\ ret.fn = "isValidTreeLocation"
    /\ fault = "none"
    /\ ret.value
    /\ Len(ret.checks) = 4
    /\ ret.samples[1][2] < NormRes
    /\ HeightLess(ret.y, WATER_LEVEL + 2, 1)

\* The (x, z) of a camera position.
Ground(c) == << c.fpPosition[1], c.fpPosition[3] >>

\* The point the camera call this step made asked landscapeGetHeight about, as
\* a set: empty when the call made no height query.
CameraQueries ==
    IF fault' # "none" THEN {}
    ELSE CASE op' = "viewCameraSetMode" ->
                IF cam.mode # "FIRST_PERSON" /\ cam'.mode = "FIRST_PERSON"
                THEN { Ground(cam) } ELSE {}
           [] op' = "viewCameraUpdate" ->
                IF cam.mode = "FIRST_PERSON" THEN { Ground(cam) } ELSE {}
           [] op' = "viewCameraMove" ->
                IF cam.mode = "FIRST_PERSON" /\ Ground(cam') # Ground(cam)
                THEN { Ground(cam') } ELSE {}
           [] OTHER -> {}

\* C30 (SpecCamera): in first-person mode, after any calls of
\* viewCameraSetMode, viewCameraMove and viewCameraRotate, a viewCameraUpdate
\* leaves fpPosition with x and z inside the terrain square and y equal to
\* landscapeGetHeight at that (x, z) plus the eye level, and every height
\* query a camera call makes is for a point inside the terrain square.
C30_FirstPersonOnTerrain ==
    [][/\ (op' = "viewCameraUpdate" /\ fault' = "none"
             /\ cam'.mode = "FIRST_PERSON") =>
              /\ InBounds(Ground(cam'))
              /\ cam'.fpPosition[2] =
                   EyeLevel(landscapeGetHeight(land'.elevationData,
                                               cam'.fpPosition[1],
                                               cam'.fpPosition[3]))
       /\ \A p \in CameraQueries : InBounds(p)]_vars

=============================================================================
